---- MODULE Spec2Model ----
(***************************************************************************)
(* A model of the CF14 semantic pipeline of the Chirality Framework:       *)
(* identifiers, canonical values, resolvers, operation functions, the      *)
(* station runners S1..S3, the pipeline driver and the provenance tracker. *)
(*                                                                         *)
(* Conventions of the model                                                *)
(*  - a Python str is a sequence of tokens (each token one character or    *)
(*    one indivisible piece of text), so that whitespace collapsing and    *)
(*    Unicode compatibility normalisation are computed, not assumed;       *)
(*  - sha256(x).hexdigest()[:n] is the record [alg, len, of |-> x]: the    *)
(*    digest is taken to be collision free on the inputs of the model;     *)
(*  - an f-string is the concatenation of its fields and separators, an    *)
(*    int formatted as its decimal text and a digest kept as one token;    *)
(*  - a call that raises returns a record whose field raised names the     *)
(*    exception class, "none" when the call returns normally;              *)
(*  - datetime.utcnow() is the variable clock, which every operation       *)
(*    advances.                                                            *)
(***************************************************************************)
EXTENDS Integers, Sequences, FiniteSets, TLC

VARIABLES
    clock,      \* datetime.utcnow(), advanced by every operation
    opArgs,     \* the arguments of the operation function under call
    opCall,     \* outcome of the latest operation function call
    opPrev,     \* outcome of the call before it
    args,       \* run_pipeline: args (hitl, resolver, thread) and the loaded A and B
    pc,         \* run_pipeline: position of the driver
    runners,    \* the station runners constructed so far, each with its own tracker
    results,    \* s1_results / s2_results / s3_results
    raised,     \* the exception that ended the run, "none" otherwise
    log,        \* per station: what it did (started, decisions, resolver calls)
    ledger,     \* a ProvenanceTracker driven directly
    query,      \* the latest get_lineage / track_operation outcome on ledger
    stCall,     \* a station runner's run() called directly: arguments and outcome
    idCall,     \* two calls of a function of the identity module, side by side
    ioCall,     \* a matrix saved to the JSON matrix format and loaded back
    provRec,    \* a stored provenance record, and what was done to it since
    valCall,    \* a validator called directly: its argument and outcome
    resCall     \* two resolver calls, side by side

vars == <<clock, opArgs, opCall, opPrev, args, pc, runners, results, raised, log,
          ledger, query, stCall, idCall, ioCall, provRec, valCall, resCall>>

opVars == <<opArgs, opCall, opPrev>>
runVars == <<args, pc, runners, results, raised, log>>
ledgerVars == <<ledger, query>>
libVars == <<stCall, idCall, ioCall, provRec, valCall, resCall>>

----------------------------------------------------------------------------
(* Bounds of the model *)

MaxDim == 2         \* rows and columns of a seed matrix range over 1..MaxDim

Dims == 1..MaxDim
Shapes == Dims \X Dims

----------------------------------------------------------------------------
(* Strings as token sequences; canonical values (provenance.py) *)

Whitespace == {" ", "\t", "\n"}

\* unicodedata.normalize("NFKC", .) on one token: compatibility characters
\* are replaced by their canonical equivalents (a ligature by two letters).
nfkc_token(t) ==
    CASE t = "NBSP" -> <<" ">>
      [] t = "FULLWIDTH_Q" -> <<"Q">>
      [] t = "LIGATURE_FI" -> <<"f", "i">>
      [] OTHER -> <<t>>

\* a position that holds no character
Gap == "<gap>"

squeeze(s) == SelectSeq(s, LAMBDA t : t # Gap)

\* unicodedata.normalize("NFKC", s): every token replaced by its equivalent
\* (of one or two tokens)
nfkc(s) ==
    squeeze([k \in 1..(2 * Len(s)) |->
               LET e == nfkc_token(s[(k + 1) \div 2])
                   j == 2 - (k % 2)
               IN  IF j <= Len(e) THEN e[j] ELSE Gap])

\* re.sub(r"\s+", " ", s): a run of whitespace becomes one space
collapse_ws(s) ==
    squeeze([k \in 1..Len(s) |->
               IF s[k] \notin Whitespace THEN s[k]
               ELSE IF k > 1 /\ s[k - 1] \in Whitespace THEN Gap ELSE " "])

\* str.strip() of a string whose whitespace runs are already single spaces
strip(s) ==
    LET a == IF s # <<>> /\ Head(s) \in Whitespace THEN Tail(s) ELSE s
    IN  IF a # <<>> /\ a[Len(a)] \in Whitespace THEN SubSeq(a, 1, Len(a) - 1) ELSE a

normalize(s) == strip(collapse_ws(nfkc(s)))

\* canonical_value of a str (every value the operation functions pass is a str)
canonical_value(v) == normalize(v)

Sha(n, x) == [alg |-> "sha256", len |-> n, of |-> x]

----------------------------------------------------------------------------
(* Identity module (ids.py) *)

\* a thread id taken from the canonical form of the seed
thread_id_normalized(seed) == <<"cf14:", Sha(12, normalize(seed))>>

\* "cf14:" and the digest of the seed
thread_id(seed) == <<"cf14:", Sha(12, seed)>>

\* f"{thread}:{name}:v{version}"
matrix_id(thread, name, version) == <<thread, ":", name, ":v", ToString(version)>>

\* a cell id made of the matrix id and the position alone
cell_id_position_only(matrix, row, col, value) ==
    matrix \o <<":", ToString(row), ":", ToString(col)>>

\* f"{matrix}:{row}:{col}:{hash_value}" with hash_value the digest of
\* f"{row}|{col}|{value}"
cell_id(matrix, row, col, value) ==
    matrix \o <<":", ToString(row), ":", ToString(col), ":",
                Sha(12, <<ToString(row), "|", ToString(col), "|">> \o value)>>

\* sorted(inputs): ids compare as their strings do, "A" before "t1:C:v1";
\* StrOrder lists the tokens of the ids in the order of str
StrOrder ==
    <<" ", ",", "1", "2", ":", ":v", "A", "B", "C", "D", "F", "J", "W", "a", "b",
      "default", "t1", "t2", "|">>
StrRank(s) == CHOOSE i \in 1..Len(StrOrder) : StrOrder[i] = s
id_less(a, b) ==
    LET n == IF Len(a) < Len(b) THEN Len(a) ELSE Len(b)
        diff == {i \in 1..n : a[i] # b[i]}
        k == CHOOSE i \in diff : \A j \in diff : i <= j
    IN  IF diff = {} THEN Len(a) < Len(b)
        ELSE StrRank(a[k]) < StrRank(b[k])

RECURSIVE insert_sorted(_, _)
insert_sorted(x, s) ==
    IF s = <<>> THEN <<x>>
    ELSE IF id_less(Head(s), x) THEN <<Head(s)>> \o insert_sorted(x, Tail(s))
         ELSE <<x>> \o s

RECURSIVE sorted(_)
sorted(s) == IF s = <<>> THEN <<>> ELSE insert_sorted(Head(s), sorted(Tail(s)))

\* ",".join(ids)
RECURSIVE join(_)
join(ids) ==
    IF ids = <<>> THEN <<>>
    ELSE IF Len(ids) = 1 THEN ids[1]
    ELSE ids[1] \o <<",">> \o join(Tail(ids))

\* "op:" and the digest of f"{kind}|{','.join(sorted(inputs))}|{output_hash}|{prompt_hash}"
operation_id(kind, inputs, output_hash, prompt_hash_val) ==
    <<"op:", Sha(16, <<kind, "|">> \o join(sorted(inputs))
                     \o <<"|", output_hash, "|", prompt_hash_val>>)>>

----------------------------------------------------------------------------
(* Data model (types.py) *)

Cell(id, row, col, value) ==
    [id |-> id, row |-> row, col |-> col, value |-> value,
     modality |-> "unknown", provenance |-> "{}"]

Matrix(id, name, station, shape, cells, hash, metadata) ==
    [id |-> id, name |-> name, station |-> station, shape |-> shape,
     cells |-> cells, hash |-> hash, metadata |-> metadata]

NoHash == Sha(0, <<>>)
NoMeta == [timestamp |-> 0, cell_operations |-> 0]
NoMatrix == Matrix(<<"none", "none", 0>>, "none", "none", <<0, 0>>, <<>>, NoHash, NoMeta)

Operation(id, kind, inputs, output, model, ph, timestamp, output_hash) ==
    [id |-> id, kind |-> kind, inputs |-> inputs, output |-> output, model |-> model,
     prompt_hash |-> ph, timestamp |-> timestamp, output_hash |-> output_hash]

NoOperation ==
    Operation(<<"op:", NoHash>>, "none", <<>>, <<"none", "none", 0>>, "none", NoHash, 0, NoHash)

\* the positions of a grid whose loop stops one cell early
Positions_one_short(rows, cols) ==
    [k \in 1..(rows * cols - 1) |-> <<(k - 1) \div cols, (k - 1) % cols>>]

\* row-major list of the positions of a rows x cols grid, 0-based as range() gives
Positions(rows, cols) ==
    [k \in 1..(rows * cols) |-> <<(k - 1) \div cols, (k - 1) % cols>>]

\* the value at a position: first cell found there, "" when there is none
\* (next(... for cell in M.cells if ...), dict.get((i, j), ""))
value_at(M, r, c) ==
    LET hits == {k \in 1..Len(M.cells) : M.cells[k].row = r /\ M.cells[k].col = c}
    IN  IF hits = {} THEN <<>>
        ELSE M.cells[CHOOSE k \in hits : \A j \in hits : k <= j].value

\* sorted(cells, key=lambda c: (c.row, c.col)): a stable sort by position
pos_before(s, i, j) ==
    \/ s[i].row < s[j].row
    \/ s[i].row = s[j].row /\ s[i].col < s[j].col
    \/ s[i].row = s[j].row /\ s[i].col = s[j].col /\ i < j

sort_by_pos(s) ==
    LET rank == [i \in 1..Len(s) |-> Cardinality({j \in 1..Len(s) : pos_before(s, j, i)})]
    IN  [k \in 1..Len(s) |-> s[CHOOSE i \in 1..Len(s) : rank[i] = k - 1]]

\* a content hash over the values in the order of the list
content_hash_unsorted(cells) ==
    Sha(16, [k \in 1..Len(cells) |-> canonical_value(cells[k].value)])

\* content_hash(cells): the canonical values in (row, col) order
content_hash(cells) ==
    LET sorted_data == sort_by_pos(cells)
    IN  Sha(16, [k \in 1..Len(sorted_data) |-> canonical_value(sorted_data[k].value)])

----------------------------------------------------------------------------
(* Seed matrices, as the tests construct them *)

Fills == {"full", "nocells"}

\* a hash field that holds a literal string
LiteralHash(s) == [alg |-> "literal", len |-> 0, of |-> <<s>>]

\* f"{fill_value}_{r}_{c}" with the default fill_value
seed_value(r, c) == <<"test", "_", ToString(r), "_", ToString(c)>>

\* create_test_matrix(name, shape): id=name, one cell f"{name}:{r}:{c}" per
\* position; create_matrix of test_validate.py builds it with cells=[]
\* (fill "nocells")
create_test_matrix(name, shape, fill) ==
    LET pos == Positions(shape[1], shape[2])
        cells == IF fill = "nocells" THEN <<>>
                 ELSE [k \in 1..Len(pos) |->
                         Cell(<<name, ":", ToString(pos[k][1]), ":", ToString(pos[k][2])>>,
                              pos[k][1], pos[k][2],
                              seed_value(pos[k][1], pos[k][2]))]
    IN  Matrix(<<name>>, name, "test", shape, cells,
               LiteralHash(IF fill = "nocells" THEN "test" ELSE "test_hash"), NoMeta)

----------------------------------------------------------------------------
(* Validation engine: dimension checks (validate.py) *)

\* ensure_dims whose second branch forgets the element-wise symbol
ensure_dims_add_only(A, B, op) ==
    IF op = "*" THEN A.shape[2] # B.shape[1]
    ELSE IF op \in {"+"} THEN A.shape # B.shape
    ELSE FALSE

\* ensure_dims that checks the product only
ensure_dims_multiply_only(A, B, op) ==
    IF op = "*" THEN A.shape[2] # B.shape[1] ELSE FALSE

\* ensure_dims(A, B, op): TRUE when it raises CF14ValidationError
ensure_dims_raises(A, B, op) ==
    IF op = "*" THEN A.shape[2] # B.shape[1]
    ELSE IF op \in {"+", "(.)"} THEN A.shape # B.shape
    ELSE FALSE

----------------------------------------------------------------------------
(* Resolvers (ops.py) *)

OpKinds == {"*", "+", "x", "interpret", "(.)"}

NoGrid == <<>>

\* EchoResolver.resolve(op, inputs, system_prompt, user_prompt, context)
EchoResolver_resolve(op, inputs) ==
    IF op = "*" THEN
        LET A == inputs[1]  B == inputs[2]
            val(r, c) == <<"*:", A.name, "[", ToString(r), ",:]", B.name, "[:,", ToString(c), "]">>
        IN  [raised |-> "none", grid |-> [r \in 1..(A.shape[1]) |-> [c \in 1..(B.shape[2]) |-> val(r - 1, c - 1)]]]
    ELSE IF op = "+" THEN
        LET A == inputs[1]  F == inputs[2]
            val(r, c) == <<"+:", A.name, "[", ToString(r), ",", ToString(c), "]", "(+)",
                           F.name, "[", ToString(r), ",", ToString(c), "]">>
        IN  [raised |-> "none", grid |-> [r \in 1..(A.shape[1]) |-> [c \in 1..(A.shape[2]) |-> val(r - 1, c - 1)]]]
    ELSE IF op = "interpret" THEN
        LET B == inputs[1]
            val(r, c) == <<"interp:", B.name, "[", ToString(r), ",", ToString(c), "]">>
        IN  [raised |-> "none", grid |-> [r \in 1..(B.shape[1]) |-> [c \in 1..(B.shape[2]) |-> val(r - 1, c - 1)]]]
    ELSE IF op = "(.)" THEN
        LET J == inputs[1]  C == inputs[2]
            val(r, c) == <<"(.):", J.name, "[", ToString(r), ",", ToString(c), "]", "x",
                           C.name, "[", ToString(r), ",", ToString(c), "]">>
        IN  [raised |-> "none", grid |-> [r \in 1..(J.shape[1]) |-> [c \in 1..(J.shape[2]) |-> val(r - 1, c - 1)]]]
    ELSE IF op = "x" THEN
        LET A == inputs[1]  B == inputs[2]
            val(r, c) == <<"x:", A.name, "[", ToString(r \div B.shape[1]), ",",
                           ToString(c \div B.shape[2]), "]", "(x)", B.name, "[",
                           ToString(r % B.shape[1]), ",", ToString(c % B.shape[2]), "]">>
        IN  [raised |-> "none",
             grid |-> [r \in 1..(A.shape[1] * B.shape[1]) |-> [c \in 1..(A.shape[2] * B.shape[2]) |-> val(r - 1, c - 1)]]]
    ELSE [raised |-> "ValueError", grid |-> NoGrid]

\* What the generative backend answers to one emit_matrix request.
GridReplies == {"exact", "short_row", "long_row", "fewer_rows", "more_cols"}
BadReplies == {"api_error", "no_tool_call", "cells_mismatch", "no_shape"}

\* the text the backend writes, per generation g, with the spacing it likes
backend_text(g, r, c) == <<g, " ", " ", ToString(r), ",", ToString(c), " ">>

\* the arguments of the emit_matrix tool call of a reply, for target (rows, cols)
tool_arguments(reply, rows, cols, g) ==
    LET row(r, n) == [c \in 1..n |-> backend_text(g, r - 1, c - 1)]
    IN  CASE reply = "exact" ->
               [shape_ok |-> TRUE, shape |-> <<rows, cols>>,
                cells |-> [r \in 1..rows |-> row(r, cols)]]
          [] reply = "short_row" ->
               [shape_ok |-> TRUE, shape |-> <<rows, cols>>,
                cells |-> [r \in 1..rows |-> row(r, IF r = 1 THEN cols - 1 ELSE cols)]]
          [] reply = "long_row" ->
               [shape_ok |-> TRUE, shape |-> <<rows, cols>>,
                cells |-> [r \in 1..rows |-> row(r, IF r = 1 THEN cols + 1 ELSE cols)]]
          [] reply = "fewer_rows" ->
               [shape_ok |-> TRUE, shape |-> <<rows - 1, cols>>,
                cells |-> [r \in 1..(rows - 1) |-> row(r, cols)]]
          [] reply = "more_cols" ->
               [shape_ok |-> TRUE, shape |-> <<rows, cols + 1>>,
                cells |-> [r \in 1..rows |-> row(r, cols + 1)]]
          [] reply = "cells_mismatch" ->
               [shape_ok |-> TRUE, shape |-> <<rows, cols>>,
                cells |-> [r \in 1..(rows + 1) |-> row(r, cols)]]
          [] OTHER ->
               [shape_ok |-> FALSE, shape |-> <<0, 0>>,
                cells |-> [r \in 1..rows |-> row(r, cols)]]

\* _ensure_grid(result)
ensure_grid(result) ==
    IF ~result.shape_ok THEN [raised |-> "CF14ValidationError", grid |-> NoGrid]
    ELSE LET rows == result.shape[1]
             cols == result.shape[2]
             cells == result.cells
         IN  IF Len(cells) # rows THEN [raised |-> "CF14ValidationError", grid |-> NoGrid]
             ELSE [raised |-> "none",
                   grid |-> [r \in 1..rows |-> [c \in 1..cols |->
                               IF c <= Len(cells[r]) THEN canonical_value(cells[r][c])
                               ELSE <<>>]]]

\* OpenAIResolver._target_shape_for_op(op, inputs)
target_shape_for_op(op, inputs) ==
    IF op = "*" THEN
        IF inputs[1].shape[2] # inputs[2].shape[1]
        THEN [raised |-> "CF14ValidationError", shape |-> <<0, 0>>]
        ELSE [raised |-> "none", shape |-> <<inputs[1].shape[1], inputs[2].shape[2]>>]
    ELSE IF op \in {"+", "(.)"} THEN
        IF inputs[1].shape # inputs[2].shape
        THEN [raised |-> "CF14ValidationError", shape |-> <<0, 0>>]
        ELSE [raised |-> "none", shape |-> inputs[1].shape]
    ELSE IF op = "interpret" THEN [raised |-> "none", shape |-> inputs[1].shape]
    ELSE IF op = "x" THEN
        [raised |-> "none",
         shape |-> <<inputs[1].shape[1] * inputs[2].shape[1],
                     inputs[1].shape[2] * inputs[2].shape[2]>>]
    ELSE [raised |-> "ValueError", shape |-> <<0, 0>>]

OpenAIResolver_max_retries == 2

\* the retry loop of OpenAIResolver.resolve from attempt (0-based) on;
\* script[attempt + 1] is the backend's reply to that attempt
RECURSIVE resolve_attempt(_, _, _, _, _)
resolve_attempt(attempt, script, rows, cols, g) ==
    LET reply == script[attempt + 1]
        after(parsed) ==
            IF parsed.raised = "none"
            THEN [raised |-> "none", grid |-> parsed.grid, attempts |-> attempt + 1,
                  sleeps |-> <<>>]
            ELSE IF attempt < OpenAIResolver_max_retries - 1
                 THEN [resolve_attempt(attempt + 1, script, rows, cols, g)
                         EXCEPT !.sleeps = <<2 ^ attempt>> \o @]
                 ELSE [raised |-> "RuntimeError", grid |-> NoGrid, attempts |-> attempt + 1,
                       sleeps |-> <<>>]
    IN  after(IF reply \in {"api_error", "no_tool_call"}
              THEN [raised |-> "Exception", grid |-> NoGrid]
              ELSE ensure_grid(tool_arguments(reply, rows, cols, g)))

\* OpenAIResolver.resolve(op, inputs, system_prompt, user_prompt, context)
OpenAIResolver_resolve(op, inputs, script, g) ==
    LET request(target) ==
            IF target.raised # "none"
            THEN [raised |-> target.raised, grid |-> NoGrid, attempts |-> 0, sleeps |-> <<>>]
            ELSE resolve_attempt(0, script, target.shape[1], target.shape[2], g)
    IN  request(target_shape_for_op(op, inputs))

----------------------------------------------------------------------------
(* Cell-by-cell resolver (cell_resolver.py) *)

CellResolver_max_retries == 3

\* the retry loop of CellResolver._call_openai from attempt (0-based) on
RECURSIVE call_openai_attempt(_, _)
call_openai_attempt(attempt, script) ==
    IF attempt >= CellResolver_max_retries
    THEN [raised |-> "none", placeholder |-> TRUE, attempts |-> attempt, sleeps |-> <<>>]
    ELSE IF script[attempt + 1] = "ok"
    THEN [raised |-> "none", placeholder |-> FALSE, attempts |-> attempt + 1, sleeps |-> <<>>]
    ELSE IF attempt < CellResolver_max_retries - 1
    THEN LET rest == call_openai_attempt(attempt + 1, script)
         IN  [rest EXCEPT !.sleeps = <<2 ^ attempt>> \o @]
    ELSE [raised |-> "RuntimeError", placeholder |-> FALSE, attempts |-> attempt + 1,
          sleeps |-> <<>>]

\* _call_openai ending in its fallback return once the attempts have failed
call_openai_fallback(script) ==
    LET out == call_openai_attempt(0, script)
    IN  IF out.raised = "none" THEN out
        ELSE [out EXCEPT !.raised = "none", !.placeholder = TRUE]

\* CellResolver._call_openai(operation, user_prompt)
call_openai(script) == call_openai_attempt(0, script)

\* the backend's replies to the cell calls made during an operation of this kind
cell_script(env, kind) ==
    IF env.cell_fail = kind THEN <<"api_error", "empty", "bad_json">> ELSE <<"ok", "ok", "ok">>

\* result["text"] of multiply_terms / add_terms / interpret_term, per generation g
multiply_text(g, a, b) == <<g, " ", " ", "mul(">> \o a \o <<"&">> \o b \o <<")">>

RECURSIVE join_terms(_)
join_terms(ts) == IF ts = <<>> THEN <<>> ELSE Head(ts) \o <<";">> \o join_terms(Tail(ts))

add_text(g, products) == <<g, " ", " ", "add(">> \o join_terms(products) \o <<")">>
interpret_text(g, t) == <<g, " ", " ", "interp(">> \o t \o <<")">>

RECURSIVE SumSeq(_)
SumSeq(s) == IF s = <<>> THEN 0 ELSE Head(s) + SumSeq(Tail(s))

----------------------------------------------------------------------------
(* Operation functions (ops.py) *)

\* prompt_hash(system, user, context) with context = {"inputs": ids}
prompt_hash(system, user, ids) ==
    Sha(64, <<canonical_value(system), canonical_value(user), ids>>)

\* str(list of rows of values), as _prompt_multiply embeds the contents
RECURSIVE repr_row(_, _, _, _)
repr_row(M, r, c, cols) ==
    IF c >= cols THEN <<>>
    ELSE <<"'">> \o value_at(M, r, c) \o <<"'", ",">> \o repr_row(M, r, c + 1, cols)

RECURSIVE repr_content(_, _)
repr_content(M, r) ==
    IF r >= M.shape[1] THEN <<>>
    ELSE <<"[">> \o repr_row(M, r, 0, M.shape[2]) \o <<"]">> \o repr_content(M, r + 1)

prompt_multiply(A, B) ==
    [system |-> <<"MULTIPLY_SYSTEM", ToString(A.shape[1]), ",", ToString(B.shape[2])>>,
     user |-> <<"MULTIPLY_USER", A.name>> \o repr_content(A, 0) \o <<B.name>>
              \o repr_content(B, 0) \o <<ToString(A.shape[1]), ",", ToString(B.shape[2])>>]

prompt_add(A, F) ==
    [system |-> <<"ADD_SYSTEM", ToString(A.shape[1]), ",", ToString(A.shape[2])>>,
     user |-> <<"ADD_USER", A.name, "+", F.name, ToString(A.shape[1]), ",", ToString(A.shape[2])>>]

prompt_interpret(B) ==
    [system |-> <<"INTERPRET_SYSTEM", ToString(B.shape[1]), ",", ToString(B.shape[2])>>,
     user |-> <<"INTERPRET_USER", B.name, ToString(B.shape[1]), ",", ToString(B.shape[2])>>]

prompt_elementwise(J, C) ==
    [system |-> <<"ELEMENTWISE_SYSTEM", ToString(J.shape[1]), ",", ToString(J.shape[2])>>,
     user |-> <<"ELEMENTWISE_USER", J.name, "(.)", C.name,
                ToString(J.shape[1]), ",", ToString(J.shape[2])>>]

prompt_cross(A, B) ==
    [system |-> <<"CROSS_SYSTEM", ToString(A.shape[1] * B.shape[1]), ",",
                  ToString(A.shape[2] * B.shape[2])>>,
     user |-> <<"CROSS_USER", A.name, "x", B.name, ToString(A.shape[1] * B.shape[1]), ",",
                ToString(A.shape[2] * B.shape[2])>>]

\* _build_output_matrix(thread, name, station, values); now is utcnow()
build_output_matrix(thread, name, station, values, now) ==
    LET rows == Len(values)
        cols == IF values # <<>> THEN Len(values[1]) ELSE 0
        mid == matrix_id(thread, name, 1)
        pos == Positions(rows, cols)
        cell(r, c, value) == Cell(cell_id(mid, r, c, value), r, c, value)
        matrix(cells) ==
            Matrix(mid, name, station, <<rows, cols>>, cells, content_hash(cells),
                   [timestamp |-> now, cell_operations |-> 0])
    IN  IF \E r \in 1..rows : Len(values[r]) < cols
        THEN [raised |-> "IndexError", matrix |-> NoMatrix]
        ELSE [raised |-> "none",
              matrix |-> matrix([k \in 1..Len(pos) |->
                                   cell(pos[k][1], pos[k][2],
                                        canonical_value(values[pos[k][1] + 1][pos[k][2] + 1]))])]

DevModel == "dev/echo/0"

\* _op_record whose id also hashes the creation time
op_record_stamped(kind, inputs, output, system_prompt, user_prompt, now) ==
    LET ids == [k \in 1..Len(inputs) |-> inputs[k].id]
        prompt_hash_val == prompt_hash(system_prompt, user_prompt, ids)
        op_id == operation_id(kind, ids, <<output.hash, now>>, prompt_hash_val)
    IN  Operation(op_id, kind, ids, output.id, DevModel, prompt_hash_val, now, output.hash)

\* _op_record(kind, inputs, output, system_prompt, user_prompt); now is utcnow()
op_record(kind, inputs, output, system_prompt, user_prompt, now) ==
    LET ids == [k \in 1..Len(inputs) |-> inputs[k].id]
        prompt_hash_val == prompt_hash(system_prompt, user_prompt, ids)
        op_id == operation_id(kind, ids, output.hash, prompt_hash_val)
    IN  Operation(op_id, kind, ids, output.id, DevModel, prompt_hash_val, now, output.hash)

\* what an operation function hands back: the exception it raised or its
\* (Matrix, Operation), with what it did on the way
OpResult(exc, M, op, resolve_calls, cell_calls, swallowed) ==
    [raised |-> exc, matrix |-> M, op |-> op, resolve_calls |-> resolve_calls,
     cell_calls |-> cell_calls, swallowed |-> swallowed, reply |-> "none"]

NoCall == OpResult("none", NoMatrix, NoOperation, 0, 0, "none")

\* resolver.resolve(...) of the resolver the run was given
resolver_resolve(env, op, inputs) ==
    LET echoed(r) == [raised |-> r.raised, grid |-> r.grid, reply |-> "echo"]
        answered(r) ==
            [raised |-> r.raised, grid |-> r.grid,
             reply |-> IF r.attempts > 0 THEN env.script[r.attempts] ELSE "none"]
    IN  IF env.resolver = "echo" THEN echoed(EchoResolver_resolve(op, inputs))
        ELSE answered(OpenAIResolver_resolve(op, inputs, env.script, env.gen))

\* the tail every operation function shares: resolve the grid, build the
\* output matrix and the operation record
resolve_and_build(thread, kind, name, station, inputs, prompts, env, now, swallowed, cell_calls) ==
    LET record(got, built) ==
            IF built.raised # "none"
            THEN OpResult(built.raised, NoMatrix, NoOperation, 1, cell_calls, swallowed)
            ELSE [OpResult("none", built.matrix,
                           op_record(kind, inputs, built.matrix, prompts.system,
                                     prompts.user, now),
                           1, cell_calls, swallowed) EXCEPT !.reply = got.reply]
        build(got) ==
            IF got.raised # "none"
            THEN OpResult(got.raised, NoMatrix, NoOperation, 1, cell_calls, swallowed)
            ELSE record(got, build_output_matrix(thread, name, station, got.grid, now))
    IN  build(resolver_resolve(env, kind, inputs))

\* the tail the cell-by-cell functions share: one cell per position of
\* rows x cols valued text(i, j), the matrix and the operation record
build_cell_by_cell(thread, kind, name, station, inputs, shape, text, info) ==
    LET mid == matrix_id(thread, name, 1)
        pos == Positions(shape[1], shape[2])
        matrix(cells) ==
            Matrix(mid, name, station, shape, cells, content_hash(cells),
                   [timestamp |-> info.now, cell_operations |-> info.cell_operations])
        result(M) ==
            OpResult("none", M, op_record(kind, inputs, M, info.system, info.user, info.now),
                     0, info.cell_calls, "none")
    IN  result(matrix([k \in 1..Len(pos) |->
                         Cell(cell_id(mid, pos[k][1], pos[k][2], text[k]),
                              pos[k][1], pos[k][2], text[k])]))

CellFailure(cell_calls) == OpResult("RuntimeError", NoMatrix, NoOperation, 0, cell_calls, "none")

\* _op_multiply_cell_by_cell(thread, A, B, cell_resolver)
op_multiply_cell_by_cell(thread, A, B, env, now) ==
    LET rows == A.shape[1]
        cols == B.shape[2]
        ks(i, j) == SelectSeq([k \in 1..A.shape[2] |-> k - 1],
                              LAMBDA k : value_at(A, i, k) # <<>> /\ value_at(B, k, j) # <<>>)
        texts(i, j) == [n \in 1..Len(ks(i, j)) |->
                          multiply_text(env.gen, value_at(A, i, ks(i, j)[n]),
                                        value_at(B, ks(i, j)[n], j))]
        products(i, j) == SelectSeq(texts(i, j), LAMBDA t : t # <<>>)
        final_text(i, j) == IF products(i, j) # <<>> THEN add_text(env.gen, products(i, j))
                            ELSE <<>>
        pos == Positions(rows, cols)
        n_mult == SumSeq([k \in 1..Len(pos) |-> Len(ks(pos[k][1], pos[k][2]))])
        n_log == SumSeq([k \in 1..Len(pos) |-> Len(products(pos[k][1], pos[k][2]))])
        n_add == SumSeq([k \in 1..Len(pos) |->
                           IF products(pos[k][1], pos[k][2]) # <<>> THEN 1 ELSE 0])
    IN  IF n_mult > 0 /\ call_openai(cell_script(env, "*")).raised # "none"
        THEN CellFailure(1)
        ELSE build_cell_by_cell(thread, "*", "C", "requirements", <<A, B>>, <<rows, cols>>,
                 [k \in 1..Len(pos) |-> final_text(pos[k][1], pos[k][2])],
                 [cell_operations |-> n_log, now |-> now, cell_calls |-> n_mult + n_add,
                  system |-> <<"Cell-by-cell semantic multiplication">>,
                  user |-> <<"Computed", " ", ToString(rows * cols), " ", "cells using", " ", ToString(n_log), " ", "semantic operations">>])

\* _op_interpret_cell_by_cell(thread, B, cell_resolver)
op_interpret_cell_by_cell(thread, B, env, now) ==
    LET rows == B.shape[1]
        cols == B.shape[2]
        final_text(i, j) == IF value_at(B, i, j) # <<>>
                            THEN interpret_text(env.gen, value_at(B, i, j)) ELSE <<>>
        pos == Positions(rows, cols)
        n_calls == SumSeq([k \in 1..Len(pos) |->
                             IF value_at(B, pos[k][1], pos[k][2]) # <<>> THEN 1 ELSE 0])
    IN  IF n_calls > 0 /\ call_openai(cell_script(env, "interpret")).raised # "none"
        THEN CellFailure(1)
        ELSE build_cell_by_cell(thread, "interpret", "J", "objectives", <<B>>, <<rows, cols>>,
                 [k \in 1..Len(pos) |-> final_text(pos[k][1], pos[k][2])],
                 [cell_operations |-> rows * cols, now |-> now, cell_calls |-> n_calls,
                  system |-> <<"Cell-by-cell interpretation">>,
                  user |-> <<"Interpreted", " ", ToString(rows * cols), " ", "cells for stakeholder clarity">>])

\* _op_elementwise_cell_by_cell(thread, J, C, cell_resolver)
op_elementwise_cell_by_cell(thread, J, C, env, now) ==
    LET rows == J.shape[1]
        cols == J.shape[2]
        both(i, j) == value_at(J, i, j) # <<>> /\ value_at(C, i, j) # <<>>
        final_text(i, j) == IF both(i, j)
                            THEN multiply_text(env.gen, value_at(J, i, j), value_at(C, i, j))
                            ELSE <<>>
        pos == Positions(rows, cols)
        n_calls == SumSeq([k \in 1..Len(pos) |-> IF both(pos[k][1], pos[k][2]) THEN 1 ELSE 0])
    IN  IF n_calls > 0 /\ call_openai(cell_script(env, "(.)")).raised # "none"
        THEN CellFailure(1)
        ELSE build_cell_by_cell(thread, "(.)", "F", "objectives", <<J, C>>, <<rows, cols>>,
                 [k \in 1..Len(pos) |-> final_text(pos[k][1], pos[k][2])],
                 [cell_operations |-> rows * cols, now |-> now, cell_calls |-> n_calls,
                  system |-> <<"Cell-by-cell element-wise multiplication">>,
                  user |-> <<"Computed", " ", ToString(rows * cols), " ", "element-wise multiplications">>])

\* _op_add_cell_by_cell(thread, A, F, cell_resolver)
op_add_cell_by_cell(thread, A, F, env, now) ==
    LET rows == A.shape[1]
        cols == A.shape[2]
        terms_to_add(i, j) == SelectSeq(<<value_at(A, i, j), value_at(F, i, j)>>,
                                        LAMBDA t : t # <<>>)
        final_text(i, j) == IF terms_to_add(i, j) # <<>>
                            THEN add_text(env.gen, terms_to_add(i, j)) ELSE <<>>
        pos == Positions(rows, cols)
        n_calls == SumSeq([k \in 1..Len(pos) |->
                             IF terms_to_add(pos[k][1], pos[k][2]) # <<>> THEN 1 ELSE 0])
    IN  IF n_calls > 0 /\ call_openai(cell_script(env, "+")).raised # "none"
        THEN CellFailure(1)
        ELSE build_cell_by_cell(thread, "+", "D", "objectives", <<A, F>>, <<rows, cols>>,
                 [k \in 1..Len(pos) |-> final_text(pos[k][1], pos[k][2])],
                 [cell_operations |-> rows * cols, now |-> now, cell_calls |-> n_calls,
                  system |-> <<"Cell-by-cell semantic addition">>,
                  user |-> <<"Computed", " ", ToString(rows * cols), " ", "semantic additions">>])

\* hasattr(resolver, 'client')
has_client(env) == env.resolver = "openai"

\* CellResolver(model=...): raises when no API key is in the environment
CellResolver_init_raises(env) == ~env.api_key

\* op_multiply(thread, A, B, resolver)
op_multiply(thread, A, B, env, now) ==
    LET fallback(swallowed, cell_calls) ==
            resolve_and_build(thread, "*", "C", "requirements", <<A, B>>,
                              prompt_multiply(A, B), env, now, swallowed, cell_calls)
        tried(cell) ==
            IF cell.raised = "none" THEN cell ELSE fallback(cell.raised, cell.cell_calls)
    IN  IF ensure_dims_raises(A, B, "*")
        THEN OpResult("CF14ValidationError", NoMatrix, NoOperation, 0, 0, "none")
        ELSE IF ~has_client(env) THEN fallback("none", 0)
        ELSE IF CellResolver_init_raises(env) THEN fallback("ValueError", 0)
        ELSE tried(op_multiply_cell_by_cell(thread, A, B, env, now))

\* op_interpret(thread, B, resolver)
op_interpret(thread, B, env, now) ==
    LET fallback(swallowed, cell_calls) ==
            resolve_and_build(thread, "interpret", "J", "objectives", <<B>>,
                              prompt_interpret(B), env, now, swallowed, cell_calls)
        tried(cell) ==
            IF cell.raised = "none" THEN cell ELSE fallback(cell.raised, cell.cell_calls)
    IN  IF ~has_client(env) THEN fallback("none", 0)
        ELSE IF CellResolver_init_raises(env) THEN fallback("ValueError", 0)
        ELSE tried(op_interpret_cell_by_cell(thread, B, env, now))

\* op_elementwise(thread, J, C, resolver)
op_elementwise(thread, J, C, env, now) ==
    IF ensure_dims_raises(J, C, "(.)")
    THEN OpResult("CF14ValidationError", NoMatrix, NoOperation, 0, 0, "none")
    ELSE IF has_client(env)
    THEN IF CellResolver_init_raises(env)
         THEN OpResult("ValueError", NoMatrix, NoOperation, 0, 0, "none")
         ELSE op_elementwise_cell_by_cell(thread, J, C, env, now)
    ELSE resolve_and_build(thread, "(.)", "F", "objectives", <<J, C>>,
                           prompt_elementwise(J, C), env, now, "none", 0)

\* op_add(thread, A, F, resolver)
op_add(thread, A, F, env, now) ==
    IF ensure_dims_raises(A, F, "+")
    THEN OpResult("CF14ValidationError", NoMatrix, NoOperation, 0, 0, "none")
    ELSE IF has_client(env)
    THEN IF CellResolver_init_raises(env)
         THEN OpResult("ValueError", NoMatrix, NoOperation, 0, 0, "none")
         ELSE op_add_cell_by_cell(thread, A, F, env, now)
    ELSE resolve_and_build(thread, "+", "D", "objectives", <<A, F>>,
                           prompt_add(A, F), env, now, "none", 0)

\* op_cross(thread, A, B, resolver)
op_cross(thread, A, B, env, now) ==
    resolve_and_build(thread, "x", "W", "assessment", <<A, B>>,
                      prompt_cross(A, B), env, now, "none", 0)

\* the operation function of a kind, on inputs X (and Y)
op_function(kind, thread, X, Y, env, now) ==
    CASE kind = "*" -> op_multiply(thread, X, Y, env, now)
      [] kind = "+" -> op_add(thread, X, Y, env, now)
      [] kind = "(.)" -> op_elementwise(thread, X, Y, env, now)
      [] kind = "interpret" -> op_interpret(thread, X, env, now)
      [] OTHER -> op_cross(thread, X, Y, env, now)

----------------------------------------------------------------------------
(* The environment of a call: which resolver the caller holds and how the  *)
(* generative backend behaves while the call lasts.                        *)

Gens == {"g1", "g2"}

EchoEnv ==
    [resolver |-> "echo", api_key |-> FALSE, cell_fail |-> "none", gen |-> "g1",
     script |-> <<"exact", "exact">>]

OpenAIEnv(key, fail, g, script) ==
    [resolver |-> "openai", api_key |-> key, cell_fail |-> fail, gen |-> g, script |-> script]

\* replies of the backend to the two attempts of OpenAIResolver.resolve
Scripts ==
    {<<a, "api_error">> : a \in GridReplies}
    \cup {<<"api_error", "exact">>, <<"api_error", "api_error">>,
          <<"no_tool_call", "short_row">>, <<"cells_mismatch", "exact">>,
          <<"no_shape", "no_tool_call">>}

\* replies of the backend while a pipeline runs
PipelineScripts ==
    {<<"exact", "api_error">>, <<"short_row", "api_error">>, <<"api_error", "api_error">>}

\* the environments in which an operation of the given kinds may run: the
\* cell calls all succeed, or those of one kind fail and the backend answers
\* the resolver by one of the scripts, or (keys allows it) no API key is set
EnvsFor(rk, kinds, scripts, keys) ==
    IF rk = "echo" THEN {EchoEnv}
    ELSE {OpenAIEnv(TRUE, "none", g, <<"exact", "exact">>) : g \in Gens}
         \cup {OpenAIEnv(TRUE, fail, "g1", sc) : fail \in kinds, sc \in scripts}
         \cup {OpenAIEnv(key, "none", "g1", <<"exact", "api_error">>) : key \in keys \ {TRUE}}

Threads == {"t1"}

----------------------------------------------------------------------------
(* Operation functions called directly, as the tests call them *)

\* nothing has been called directly
NoStCall == [station |-> "none"]
NoIdCall == [fn |-> "none"]
NoIoCall == [saved |-> FALSE]
NoProvRec == [kind |-> "none"]
NoValCall == [fn |-> "none"]
NoResCall == [fn |-> "none"]

LibInit ==
    /\ stCall = NoStCall
    /\ idCall = NoIdCall
    /\ ioCall = NoIoCall
    /\ provRec = NoProvRec
    /\ valCall = NoValCall
    /\ resCall = NoResCall

NoArgs == [kind |-> "none", thread |-> "none", X |-> NoMatrix, Y |-> NoMatrix, env |-> EchoEnv]

OpsInit ==
    /\ clock = 0
    /\ opArgs = NoArgs
    /\ opCall = NoCall
    /\ opPrev = NoCall

\* a first call of an operation function, on test matrices named A and B
CallOp ==
    /\ opArgs = NoArgs
    /\ idCall = NoIdCall
    /\ \E kind \in OpKinds, thread \in Threads, sx \in Shapes, sy \in Shapes, fx \in Fills,
          rk \in {"echo", "openai"} :
         \E env \in EnvsFor(rk, {kind}, Scripts, BOOLEAN) :
            LET X == create_test_matrix("A", sx, fx)
                Y == create_test_matrix("B", sy, "full")
            IN  /\ opArgs' = [kind |-> kind, thread |-> thread, X |-> X, Y |-> Y, env |-> env]
                /\ opCall' = op_function(kind, thread, X, Y, env, clock)
    /\ opPrev' = opCall
    /\ clock' = clock + 1
    /\ UNCHANGED <<runVars, ledgerVars, libVars>>

\* the same operation function invoked again, later, with identical inputs
\* and identical resolver behaviour
RepeatOp ==
    /\ opArgs # NoArgs
    /\ opPrev = NoCall
    /\ opCall' = op_function(opArgs.kind, opArgs.thread, opArgs.X, opArgs.Y, opArgs.env, clock)
    /\ opPrev' = opCall
    /\ clock' = clock + 1
    /\ UNCHANGED <<opArgs, runVars, ledgerVars, libVars>>

\* the same operation function invoked again with the same inputs under the
\* same thread, the resolver free to answer with other text
CallOpAgain ==
    /\ opArgs # NoArgs
    /\ opPrev = NoCall
    /\ \E env \in {EchoEnv} \cup {OpenAIEnv(TRUE, "none", g, <<"exact", "exact">>) : g \in Gens} :
         /\ opArgs' = [opArgs EXCEPT !.env = env]
         /\ opCall' = op_function(opArgs.kind, opArgs.thread, opArgs.X, opArgs.Y, env, clock)
    /\ opPrev' = opCall
    /\ clock' = clock + 1
    /\ UNCHANGED <<runVars, ledgerVars, libVars>>

----------------------------------------------------------------------------
(* Validation engine: structure checks (validate.py) *)

Modality == {"axiom", "theory", "concept", "process", "instance", "value", "unknown"}
MatrixType == {"A", "B", "C", "D", "F", "J"}

\* Cell.content, the legacy property: always the dict {"text": value}
cell_content(cell) == [text |-> cell.value]

\* validate_cell(cell): the list of errors
validate_cell(cell) ==
    (IF cell.id = <<>> THEN <<"Cell missing ID">> ELSE <<>>)
    \o (IF cell.row < 0 THEN <<"Invalid row position">> ELSE <<>>)
    \o (IF cell.col < 0 THEN <<"Invalid column position">> ELSE <<>>)
    \o (IF DOMAIN cell_content(cell) = {} THEN <<"Cell missing content">>
        ELSE IF "text" \notin DOMAIN cell_content(cell)
        THEN <<"Cell content missing 'text' field">> ELSE <<>>)
    \o (IF cell.modality \notin Modality THEN <<"Invalid modality">> ELSE <<>>)

\* the part of validate_matrix that loops over the cells, from cell k on
RECURSIVE validate_cells_from(_, _, _)
validate_cells_from(matrix, k, cell_positions) ==
    IF k > Len(matrix.cells) THEN <<>>
    ELSE LET cell == matrix.cells[k]
             pos == <<cell.row, cell.col>>
         IN  validate_cell(cell)
             \o (IF cell.row >= matrix.shape[1] \/ cell.col >= matrix.shape[2]
                 THEN <<"Cell out of bounds">> ELSE <<>>)
             \o (IF pos \in cell_positions THEN <<"Duplicate cell at position">> ELSE <<>>)
             \o validate_cells_from(matrix, k + 1, cell_positions \cup {pos})

\* validate_matrix without the check for an empty cell list
validate_matrix_allows_empty(matrix) ==
    IF matrix.name \notin MatrixType
    THEN [raised |-> "ValueError", errors |-> <<>>]
    ELSE [raised |-> "none",
          errors |->
            (IF matrix.id = <<>> THEN <<"Matrix missing ID">> ELSE <<>>)
            \o (IF matrix.shape[1] <= 0 \/ matrix.shape[2] <= 0
                THEN <<"Invalid dimensions">> ELSE <<>>)
            \o validate_cells_from(matrix, 1, {})]

\* validate_matrix(matrix): raises ValueError when Matrix.type cannot be
\* derived from the name, otherwise returns the list of errors
validate_matrix(matrix) ==
    IF matrix.name \notin MatrixType
    THEN [raised |-> "ValueError", errors |-> <<>>]
    ELSE [raised |-> "none",
          errors |->
            (IF matrix.id = <<>> THEN <<"Matrix missing ID">> ELSE <<>>)
            \o (IF matrix.shape[1] <= 0 \/ matrix.shape[2] <= 0
                THEN <<"Invalid dimensions">> ELSE <<>>)
            \o (IF matrix.cells = <<>> THEN <<"Matrix has no cells">> ELSE <<>>)
            \o validate_cells_from(matrix, 1, {})]

\* a dimension check for multiplication that compares the row counts
validate_matrix_dimensions_rows(matrix_a, matrix_b, operation) ==
    IF operation = "multiply"
    THEN IF matrix_a.shape[1] # matrix_b.shape[1]
         THEN <<"Incompatible dimensions for multiplication">> ELSE <<>>
    ELSE IF operation = "add"
    THEN IF matrix_a.shape # matrix_b.shape
         THEN <<"Incompatible dimensions for addition">> ELSE <<>>
    ELSE <<>>

\* validate_matrix_dimensions(matrix_a, matrix_b, operation): the list of errors
validate_matrix_dimensions(matrix_a, matrix_b, operation) ==
    IF operation = "multiply"
    THEN IF matrix_a.shape[2] # matrix_b.shape[1]
         THEN <<"Incompatible dimensions for multiplication">> ELSE <<>>
    ELSE IF operation = "add"
    THEN IF matrix_a.shape # matrix_b.shape
         THEN <<"Incompatible dimensions for addition">> ELSE <<>>
    ELSE <<>>

----------------------------------------------------------------------------
(* Provenance tracker (provenance.py) *)

EmptyDict == [x \in {} |-> 0]

\* ProvenanceTracker()
NewTracker == [operations |-> <<>>, lineage |-> EmptyDict]

\* ProvenanceTracker._generate_operation_id(operation_type, inputs); now is utcnow()
generate_operation_id(operation_type, inputs, now) ==
    <<"op_", Sha(12, <<operation_type, sorted(inputs), now>>)>>

\* the loop over outputs leaving an entry the index already holds as it is
update_lineage_keep_first(lineage, outputs, k, entry) ==
    [x \in DOMAIN lineage \cup {outputs[j] : j \in k..Len(outputs)} |->
        IF x \in DOMAIN lineage THEN lineage[x] ELSE entry]

\* the lineage index after the loop over outputs[k..]
RECURSIVE update_lineage(_, _, _, _)
update_lineage(lineage, outputs, k, entry) ==
    IF k > Len(outputs) THEN lineage
    ELSE update_lineage([x \in DOMAIN lineage \cup {outputs[k]} |->
                            IF x = outputs[k] THEN entry ELSE lineage[x]],
                        outputs, k + 1, entry)

\* ProvenanceTracker.track_operation(operation_type, inputs, outputs, metadata)
track_operation(tracker, operation_type, inputs, outputs, metadata, now) ==
    LET operation == [id |-> generate_operation_id(operation_type, inputs, now),
                      type |-> operation_type, inputs |-> inputs, outputs |-> outputs,
                      timestamp |-> now, metadata |-> metadata]
        entry == [operation |-> operation.id, sources |-> inputs, timestamp |-> now]
    IN  [tracker |-> [operations |-> Append(tracker.operations, operation),
                      lineage |-> update_lineage(tracker.lineage, outputs, 1, entry)],
         id |-> operation.id]

\* get_lineage that never follows the sources
get_lineage_flat(tracker, entity_id, depth) ==
    IF entity_id \notin DOMAIN tracker.lineage
    THEN [id |-> entity_id, found |-> FALSE, nested |-> FALSE, sources |-> <<>>]
    ELSE [id |-> entity_id, found |-> TRUE, nested |-> FALSE,
          operation |-> tracker.lineage[entity_id].operation,
          timestamp |-> tracker.lineage[entity_id].timestamp,
          sources |-> tracker.lineage[entity_id].sources]

\* ProvenanceTracker.get_lineage(entity_id, depth): found FALSE stands for
\* {"id": entity_id, "lineage": None}; nested tells whether sources holds
\* lineage trees instead of ids
RECURSIVE get_lineage(_, _, _)
get_lineage(tracker, entity_id, depth) ==
    IF entity_id \notin DOMAIN tracker.lineage
    THEN [id |-> entity_id, found |-> FALSE, nested |-> FALSE, sources |-> <<>>]
    ELSE LET lineage == tracker.lineage[entity_id]
         IN  IF depth > 1 /\ lineage.sources # <<>>
             THEN [id |-> entity_id, found |-> TRUE, nested |-> TRUE,
                   operation |-> lineage.operation, timestamp |-> lineage.timestamp,
                   sources |-> [k \in 1..Len(lineage.sources) |->
                                  get_lineage(tracker, lineage.sources[k], depth - 1)]]
             ELSE [id |-> entity_id, found |-> TRUE, nested |-> FALSE,
                   operation |-> lineage.operation, timestamp |-> lineage.timestamp,
                   sources |-> lineage.sources]

\* the ids a lineage tree names as sources, at any level
RECURSIVE lineage_sources(_)
lineage_sources(tree) ==
    IF ~tree.found THEN {}
    ELSE IF tree.nested
    THEN UNION {{tree.sources[k].id} \cup lineage_sources(tree.sources[k]) :
                  k \in 1..Len(tree.sources)}
    ELSE {tree.sources[k] : k \in 1..Len(tree.sources)}

\* get_lineage working on the index entry itself
lineage_target_entry(tracker, entity_id) == "entry"

\* lineage = self.lineage[entity_id].copy(): the dict that the assignment
\* lineage["sources"] = [...] writes to is a copy of the index entry
lineage_target(tracker, entity_id) == "copy"

\* the tracker after get_lineage(entity_id, depth) has returned: the calls for
\* the sources run first, in order, then the nested list is assigned; a tree
\* held in a sources list is boxed in a one-element tuple
RECURSIVE get_lineage_effect(_, _, _)
RECURSIVE sources_effect(_, _, _, _)
sources_effect(tracker, sources, k, depth) ==
    IF k > Len(sources) THEN tracker
    ELSE sources_effect(get_lineage_effect(tracker, sources[k], depth), sources, k + 1, depth)

get_lineage_effect(tracker, entity_id, depth) ==
    IF entity_id \notin DOMAIN tracker.lineage THEN tracker
    ELSE LET lineage == tracker.lineage[entity_id]
         IN  IF depth > 1 /\ lineage.sources # <<>>
             THEN LET after == sources_effect(tracker, lineage.sources, 1, depth - 1)
                      nested == [k \in 1..Len(lineage.sources) |->
                                   <<get_lineage(tracker, lineage.sources[k], depth - 1)>>]
                  IN  IF lineage_target(tracker, entity_id) = "entry"
                      THEN [after EXCEPT !.lineage[entity_id].sources = nested]
                      ELSE after
             ELSE tracker

----------------------------------------------------------------------------
(* Station runners (stations.py) *)

Stations == <<"S1", "S2", "S3">>

\* StationRunner.__init__(resolver, enable_hitl): every runner owns a new tracker
NewRunner == [constructed |-> TRUE, provenance |-> NewTracker]
NoRunner == [constructed |-> FALSE, provenance |-> NewTracker]

\* str.lower() on the answers the console may give
lower(response) ==
    CASE response = "Y" -> "y"
      [] response = "YES" -> "yes"
      [] response = "N" -> "n"
      [] OTHER -> response

Answers == {"y", "YES", "n", "", "ok"}

\* a gate that stops the station only on an explicit "n"
confirm_hitl_unless_no(enable_hitl, response) ==
    IF ~enable_hitl THEN TRUE ELSE lower(response) \notin {"n", "no"}

\* StationRunner._confirm_hitl(message), given what input() returns
confirm_hitl(enable_hitl, response) ==
    IF ~enable_hitl THEN TRUE ELSE lower(response) \in {"y", "yes"}

\* one entry of the log of a run
Event(station, event, detail) == [station |-> station, event |-> event, detail |-> detail]

\* what a call of an operation function did, for the log
OpEvent(station, kind, r) ==
    Event(station, "op",
          [kind |-> kind, raised |-> r.raised, swallowed |-> r.swallowed,
           resolve_calls |-> r.resolve_calls, cell_calls |-> r.cell_calls])

NoDetail ==
    [kind |-> "none", raised |-> "none", swallowed |-> "none", resolve_calls |-> 0,
     cell_calls |-> 0]

\* what input() returned, for the log
Decision(enable_hitl, response) == [NoDetail EXCEPT !.kind = response]

Outcome(exc, outputs, tracker, events) ==
    [raised |-> exc, outputs |-> outputs, tracker |-> tracker, events |-> events]

\* an S1 that validates A and takes B as it comes
S1_check_only_A(inputs) ==
    IF "A" \notin DOMAIN inputs \/ "B" \notin DOMAIN inputs
    THEN "ValueError: S1 requires A and B matrices as input"
    ELSE IF validate_matrix(inputs.A).raised # "none" THEN validate_matrix(inputs.A).raised
    ELSE IF validate_matrix(inputs.A).errors # <<>> THEN "ValueError: Matrix A validation failed"
    ELSE "none"

\* S1Runner.run up to the confirmation gate: the exception raised, or "none"
S1_check(inputs) ==
    IF "A" \notin DOMAIN inputs \/ "B" \notin DOMAIN inputs
    THEN "ValueError: S1 requires A and B matrices as input"
    ELSE IF validate_matrix(inputs.A).raised # "none" THEN validate_matrix(inputs.A).raised
    ELSE IF validate_matrix(inputs.A).errors # <<>> THEN "ValueError: Matrix A validation failed"
    ELSE IF validate_matrix(inputs.B).raised # "none" THEN validate_matrix(inputs.B).raised
    ELSE IF validate_matrix(inputs.B).errors # <<>> THEN "ValueError: Matrix B validation failed"
    ELSE "none"

\* S1Runner.run after the gate
S1_body(tracker, inputs, now) ==
    LET t == track_operation(tracker, "s1_load", <<>>, <<inputs.A.id, inputs.B.id>>, "S1", now)
    IN  Outcome("none", [A |-> inputs.A, B |-> inputs.B], t.tracker,
                <<Event("S1", "append", NoDetail)>>)

\* S2Runner.run up to the confirmation gate
S2_check(inputs) ==
    IF "A" \notin DOMAIN inputs \/ "B" \notin DOMAIN inputs
    THEN "ValueError: S2 requires A and B matrices as input"
    ELSE IF validate_matrix_dimensions(inputs.A, inputs.B, "multiply") # <<>>
    THEN "ValueError: Cannot multiply matrices"
    ELSE "none"

\* S2Runner.run after the gate
S2_body(tracker, inputs, thread, env, now) ==
    LET track(c) ==
            track_operation(tracker, "s2_multiply", <<inputs.A.id, inputs.B.id>>,
                            <<c.matrix.id>>, "S2", now).tracker
        multiplied(c) ==
            IF c.raised # "none"
            THEN Outcome(c.raised, EmptyDict, tracker, <<OpEvent("S2", "*", c)>>)
            ELSE Outcome("none", [A |-> inputs.A, B |-> inputs.B, C |-> c.matrix], track(c),
                         <<OpEvent("S2", "*", c), Event("S2", "append", NoDetail)>>)
    IN  multiplied(op_multiply(thread, inputs.A, inputs.B, env, now))

\* S3Runner.run up to the confirmation gate
S3_check(inputs) ==
    IF "C" \notin DOMAIN inputs THEN "ValueError: S3 requires C matrix as input" ELSE "none"

\* S3Runner._generate_domain_matrix(matrix_c, thread_id, context): it builds
\* Cell(..., content=...) and Matrix(..., type=..., dimensions=...), which
\* the dataclasses of types.py do not accept
generate_domain_matrix(matrix_c, thread) ==
    OpResult("TypeError", NoMatrix, NoOperation, 0, 0, "none")

\* S3Runner.run after the gate
S3_body(tracker, inputs, thread, env, now) ==
    LET names == {"C", "J", "F", "D"} \cup (DOMAIN inputs \cap {"A", "B"})
        result(made) == [n \in names |-> IF n \in {"A", "B"} THEN inputs[n] ELSE made[n]]
        track(j, f, d) ==
            track_operation(tracker, "s3_synthesize", <<inputs.C.id>>,
                            <<j.matrix.id, f.matrix.id, d.matrix.id>>, "S3", now).tracker
        derive == IF "A" \in DOMAIN inputs THEN "+" ELSE "domain"
        added(j, f, d, ev) ==
            IF d.raised # "none"
            THEN Outcome(d.raised, EmptyDict, tracker, ev \o <<OpEvent("S3", derive, d)>>)
            ELSE Outcome("none",
                         result([C |-> inputs.C, J |-> j.matrix, F |-> f.matrix,
                                 D |-> d.matrix]),
                         track(j, f, d),
                         ev \o <<OpEvent("S3", derive, d), Event("S3", "append", NoDetail)>>)
        multiplied(j, f, ev) ==
            IF f.raised # "none"
            THEN Outcome(f.raised, EmptyDict, tracker, ev \o <<OpEvent("S3", "(.)", f)>>)
            ELSE added(j, f,
                       IF "A" \in DOMAIN inputs
                       THEN op_add(thread, inputs.A, f.matrix, env, now)
                       ELSE generate_domain_matrix(inputs.C, thread),
                       ev \o <<OpEvent("S3", "(.)", f)>>)
        interpreted(j) ==
            IF j.raised # "none"
            THEN Outcome(j.raised, EmptyDict, tracker, <<OpEvent("S3", "interpret", j)>>)
            ELSE multiplied(j, op_elementwise(thread, j.matrix, inputs.C, env, now),
                            <<OpEvent("S3", "interpret", j)>>)
    IN  interpreted(op_interpret(thread, inputs.C, env, now))

----------------------------------------------------------------------------
(* The pipeline driver (cli.py, run_pipeline) *)

\* a driver that catches the exception of a station and goes on
run_pipeline_keep_going(station, exc) ==
    CASE station = "S1" -> "S2"
      [] station = "S2" -> "S3"
      [] OTHER -> "export"

\* where run_pipeline goes after a station: an exception leaves the function
run_pipeline_next(station, exc) ==
    IF exc # "none" THEN "aborted"
    ELSE CASE station = "S1" -> "S2"
           [] station = "S2" -> "S3"
           [] OTHER -> "export"

RunInit ==
    /\ clock = 0
    /\ \E hitl \in BOOLEAN, resolver \in {"echo", "openai"}, thread \in Threads,
          sa \in Shapes, sb \in Shapes, fa \in Fills, fb \in Fills :
         args = [hitl |-> hitl, resolver |-> resolver, thread |-> thread,
                 A |-> create_test_matrix("A", sa, fa),
                 B |-> create_test_matrix("B", sb, fb)]
    /\ pc = "S1"
    /\ runners = [st \in {"S1", "S2", "S3"} |-> NoRunner]
    /\ results = [A |-> args.A, B |-> args.B]
    /\ raised = "none"
    /\ log = <<>>

\* the station returned or raised: its runner keeps the tracker, the driver
\* keeps the results or is left by the exception
Finish(station, out, events) ==
    /\ runners' = [runners EXCEPT ![station] = [constructed |-> TRUE, provenance |-> out.tracker]]
    /\ log' = log \o events \o out.events
              \o <<Event(station, IF out.raised = "none" THEN "return" ELSE "raise", NoDetail)>>
    /\ raised' = out.raised
    /\ results' = IF out.raised = "none" THEN out.outputs ELSE results
    /\ pc' = run_pipeline_next(station, out.raised)
    /\ clock' = clock + 1
    /\ UNCHANGED args

\* the station stops at input(): the runner exists, nothing else has happened
Ask(station, events) ==
    /\ runners' = [runners EXCEPT ![station] = NewRunner]
    /\ log' = log \o events \o <<Event(station, "ask", NoDetail)>>
    /\ pc' = station \o "_confirm"
    /\ clock' = clock + 1
    /\ UNCHANGED <<args, raised, results>>

Failed(exc) == Outcome(exc, EmptyDict, NewTracker, <<>>)

Cancelled(station) == "RuntimeError: " \o station \o " cancelled by user"

\* s1 = S1Runner(resolver, enable_hitl=args.hitl); s1.run({"A": ..., "B": ...}, context)
S1Start ==
    /\ pc = "S1"
    /\ UNCHANGED <<opVars, ledgerVars, libVars>>
    /\ LET start == <<Event("S1", "start", NoDetail)>>
       IN  IF S1_check(results) # "none" THEN Finish("S1", Failed(S1_check(results)), start)
           ELSE IF args.hitl THEN Ask("S1", start)
           ELSE Finish("S1", S1_body(NewTracker, results, clock), start)

\* input() returns in S1
S1Answer ==
    /\ pc = "S1_confirm"
    /\ UNCHANGED <<opVars, ledgerVars, libVars>>
    /\ \E response \in Answers :
         LET ev == <<Event("S1", "answer", Decision(args.hitl, response))>>
         IN  IF ~confirm_hitl(args.hitl, response)
             THEN Finish("S1", Failed(Cancelled("S1")), ev)
             ELSE Finish("S1", S1_body(runners["S1"].provenance, results, clock), ev)

\* s2 = S2Runner(resolver, enable_hitl=args.hitl); s2.run(s1_results, context)
S2Start ==
    /\ pc = "S2"
    /\ UNCHANGED <<opVars, ledgerVars, libVars>>
    /\ LET start == <<Event("S2", "start", NoDetail)>>
       IN  IF S2_check(results) # "none" THEN Finish("S2", Failed(S2_check(results)), start)
           ELSE IF args.hitl THEN Ask("S2", start)
           ELSE \E env \in EnvsFor(args.resolver, {"*"}, PipelineScripts, {TRUE}) :
                  Finish("S2", S2_body(NewTracker, results, args.thread, env, clock), start)

\* input() returns in S2
S2Answer ==
    /\ pc = "S2_confirm"
    /\ UNCHANGED <<opVars, ledgerVars, libVars>>
    /\ \E response \in Answers :
         LET ev == <<Event("S2", "answer", Decision(args.hitl, response))>>
         IN  IF ~confirm_hitl(args.hitl, response)
             THEN Finish("S2", Failed(Cancelled("S2")), ev)
             ELSE \E env \in EnvsFor(args.resolver, {"*"}, PipelineScripts, {TRUE}) :
                    Finish("S2", S2_body(runners["S2"].provenance, results, args.thread,
                                         env, clock), ev)

\* s3 = S3Runner(resolver, enable_hitl=args.hitl); s3.run(s2_results, context)
S3Start ==
    /\ pc = "S3"
    /\ UNCHANGED <<opVars, ledgerVars, libVars>>
    /\ LET start == <<Event("S3", "start", NoDetail)>>
       IN  IF S3_check(results) # "none" THEN Finish("S3", Failed(S3_check(results)), start)
           ELSE IF args.hitl THEN Ask("S3", start)
           ELSE \E env \in EnvsFor(args.resolver, {"interpret", "(.)", "+"}, PipelineScripts, {TRUE}) :
                  Finish("S3", S3_body(NewTracker, results, args.thread, env, clock), start)

\* input() returns in S3
S3Answer ==
    /\ pc = "S3_confirm"
    /\ UNCHANGED <<opVars, ledgerVars, libVars>>
    /\ \E response \in Answers :
         LET ev == <<Event("S3", "answer", Decision(args.hitl, response))>>
         IN  IF ~confirm_hitl(args.hitl, response)
             THEN Finish("S3", Failed(Cancelled("S3")), ev)
             ELSE \E env \in EnvsFor(args.resolver, {"interpret", "(.)", "+"}, PipelineScripts, {TRUE}) :
                    Finish("S3", S3_body(runners["S3"].provenance, results, args.thread,
                                         env, clock), ev)

----------------------------------------------------------------------------
(* A provenance tracker driven directly *)

MaxOps == 2     \* track_operation calls of one behaviour

NoQuery == [call |-> "none", id |-> <<"none", "none", 0>>, depth |-> 0,
            op_id |-> <<"op_", NoHash>>]

LedgerInit ==
    /\ clock = 0
    /\ ledger = NewTracker
    /\ query = NoQuery

EntityIds == {matrix_id("t1", n, 1) : n \in {"A", "B", "C"}}
OperationTypes == {"s2_multiply", "s3_synthesize"}

\* tracker.track_operation(operation_type, inputs, outputs, metadata)
TrackOperation ==
    /\ Len(ledger.operations) < MaxOps
    /\ \E ty \in OperationTypes, i1 \in EntityIds, i2 \in EntityIds, o \in EntityIds :
         LET t == track_operation(ledger, ty, <<i1, i2>>, <<o>>, "meta", clock)
         IN  /\ ledger' = t.tracker
             /\ query' = [call |-> "track_operation", id |-> o, depth |-> 0, op_id |-> t.id]
    /\ clock' = clock + 1
    /\ UNCHANGED <<opVars, runVars, libVars>>

\* the input and output lists the stations hand to track_operation: none,
\* one or two inputs, one or two outputs
InputIdLists ==
    {<<>>} \cup {<<i>> : i \in EntityIds}
    \cup {<<matrix_id("t1", p[1], 1), matrix_id("t1", p[2], 1)>> :
            p \in {<<"A", "B">>, <<"B", "C">>, <<"C", "A">>}}
OutputIdLists ==
    {<<o>> : o \in EntityIds} \cup {<<matrix_id("t1", "A", 1), matrix_id("t1", "B", 1)>>}

\* tracker.track_operation(operation_type, inputs, outputs, metadata) as a
\* station calls it
RecordOperation ==
    /\ Len(ledger.operations) < MaxOps
    /\ \E inputs \in InputIdLists, outputs \in OutputIdLists :
         LET t == track_operation(ledger, "s3_synthesize", inputs, outputs, "meta", clock)
         IN  /\ ledger' = t.tracker
             /\ query' = [call |-> "track_operation", id |-> outputs[1], depth |-> 0,
                          op_id |-> t.id]
    /\ clock' = clock + 1
    /\ UNCHANGED <<opVars, runVars, libVars>>

MaxDepth == 3   \* deepest get_lineage query

\* tracker.get_lineage(entity_id, depth), asked at the start or after an
\* operation was recorded
GetLineage ==
    /\ query.call # "get_lineage"
    /\ \E id \in EntityIds, depth \in 1..MaxDepth :
         /\ query' = [call |-> "get_lineage", id |-> id, depth |-> depth,
                      op_id |-> <<"op_", NoHash>>,
                      result |-> get_lineage(ledger, id, depth)]
         /\ ledger' = get_lineage_effect(ledger, id, depth)
    /\ UNCHANGED <<clock, opVars, runVars, libVars>>

----------------------------------------------------------------------------
(* Station runners called directly (stations.py) *)

\* S1Runner(resolver, enable_hitl).run(inputs, context), the whole call;
\* response is what input() returns when the gate asks
S1Runner_run(enable_hitl, response, inputs, now) ==
    IF S1_check(inputs) # "none" THEN Failed(S1_check(inputs))
    ELSE IF ~confirm_hitl(enable_hitl, response) THEN Failed(Cancelled("S1"))
    ELSE S1_body(NewTracker, inputs, now)

\* S2Runner(resolver, enable_hitl).run(inputs, context)
S2Runner_run(enable_hitl, response, inputs, thread, env, now) ==
    IF S2_check(inputs) # "none" THEN Failed(S2_check(inputs))
    ELSE IF ~confirm_hitl(enable_hitl, response) THEN Failed(Cancelled("S2"))
    ELSE S2_body(NewTracker, inputs, thread, env, now)

\* S3Runner(resolver, enable_hitl).run(inputs, context)
S3Runner_run(enable_hitl, response, inputs, thread, env, now) ==
    IF S3_check(inputs) # "none" THEN Failed(S3_check(inputs))
    ELSE IF ~confirm_hitl(enable_hitl, response) THEN Failed(Cancelled("S3"))
    ELSE S3_body(NewTracker, inputs, thread, env, now)

\* the dicts a caller may pass as inputs: any of the keys present, each
\* holding one of the matrices given for it
InputDicts(keys, choices) ==
    UNION {[D -> UNION {choices[k] : k \in D}] : D \in SUBSET keys}

\* the dicts of InputDicts whose every key holds a matrix given for that key
DictsOf(keys, choices) ==
    {d \in InputDicts(keys, choices) : \A k \in DOMAIN d : d[k] \in choices[k]}

\* the gate is asked only when it is enabled
Gates == {<<FALSE, "">>} \cup {<<TRUE, r>> : r \in Answers}

\* matrices for S1: well formed, without cells, or with a name that is no
\* MatrixType
S1Choices ==
    [k \in {"A", "B"} |->
        {create_test_matrix(k, sh, fill) : sh \in Shapes, fill \in Fills}
        \cup {create_test_matrix("X", <<1, 1>>, "full")}]

S2Choices ==
    [k \in {"A", "B"} |-> {create_test_matrix(k, sh, "full") : sh \in Shapes}]

S3Choices ==
    [k \in {"A", "B", "C"} |->
        IF k = "B" THEN {create_test_matrix("B", <<1, 1>>, "full")}
        ELSE {create_test_matrix(k, sh, "full") : sh \in Shapes}]

StCall(station, gate, inputs, env, out) ==
    [station |-> station, enable_hitl |-> gate[1], response |-> gate[2], inputs |-> inputs,
     env |-> env, out |-> out]

\* S1Runner(resolver, enable_hitl).run(inputs)
RunS1 ==
    /\ stCall = NoStCall
    /\ \E gate \in Gates, inputs \in DictsOf({"A", "B"}, S1Choices) :
         stCall' = StCall("S1", gate, inputs, EchoEnv,
                          S1Runner_run(gate[1], gate[2], inputs, clock))
    /\ clock' = clock + 1
    /\ UNCHANGED <<opVars, runVars, ledgerVars, idCall, ioCall, provRec, valCall, resCall>>

\* S2Runner(resolver, enable_hitl).run(inputs, {"thread_id": thread})
RunS2 ==
    /\ stCall = NoStCall
    /\ \E gate \in Gates, inputs \in DictsOf({"A", "B"}, S2Choices), thread \in Threads,
          rk \in {"echo", "openai"} :
         \E env \in EnvsFor(rk, {"*"}, PipelineScripts, {TRUE}) :
            stCall' = StCall("S2", gate, inputs, env,
                             S2Runner_run(gate[1], gate[2], inputs, thread, env, clock))
    /\ clock' = clock + 1
    /\ UNCHANGED <<opVars, runVars, ledgerVars, idCall, ioCall, provRec, valCall, resCall>>

\* S3Runner(resolver, enable_hitl).run(inputs, {"thread_id": thread})
RunS3 ==
    /\ stCall = NoStCall
    /\ \E gate \in Gates, inputs \in DictsOf({"A", "B", "C"}, S3Choices), thread \in Threads,
          rk \in {"echo", "openai"} :
         \E env \in EnvsFor(rk, {"interpret", "(.)", "+"}, PipelineScripts, {TRUE}) :
            stCall' = StCall("S3", gate, inputs, env,
                             S3Runner_run(gate[1], gate[2], inputs, thread, env, clock))
    /\ clock' = clock + 1
    /\ UNCHANGED <<opVars, runVars, ledgerVars, idCall, ioCall, provRec, valCall, resCall>>

----------------------------------------------------------------------------
(* The identity module called directly, as test_ids.py calls it *)

\* strings a caller may pass: plain ones, and ones that differ from another
\* only by the length of a whitespace run or by compatibility form
Texts ==
    {<<"a">>, <<"b">>, <<"a", " ", "b">>, <<"a", " ", " ", "b">>, <<"f", "i">>,
     <<"LIGATURE_FI">>}

\* matrix ids a caller may pass to cell_id
MatrixTexts == Texts \cup {<<"a", ":", "0">>}

\* ids a caller may list as the inputs of an operation
InputTexts == {<<"a">>, <<"b">>, <<"a", ",", "b">>, <<"a", " ", "b">>, <<"a", " ", " ", "b">>}

InputLists == {<<>>} \cup {<<x>> : x \in InputTexts} \cup (InputTexts \X InputTexts)

OutputHashes == {LiteralHash("abc123"), LiteralHash("hash1")}
PromptHashes == {LiteralHash("def456"), LiteralHash("hash2")}

IdCall(fn, a, b, ra, rb) == [fn |-> fn, a |-> a, b |-> b, ra |-> ra, rb |-> rb]

\* thread_id(seed), twice
CallThreadId ==
    /\ idCall = NoIdCall
    /\ \E s1 \in Texts, s2 \in Texts :
         idCall' = IdCall("thread_id", <<s1>>, <<s2>>, thread_id(s1), thread_id(s2))
    /\ UNCHANGED <<clock, opVars, runVars, ledgerVars, stCall, ioCall, provRec, valCall, resCall>>

\* cell_id(matrix, row, col, value), twice
CallCellId ==
    /\ idCall = NoIdCall
    /\ \E m1 \in MatrixTexts, m2 \in MatrixTexts, r1 \in 0..1, r2 \in 0..1, c1 \in 0..1,
          c2 \in 0..1, v1 \in Texts, v2 \in Texts :
         idCall' = IdCall("cell_id", <<m1, r1, c1, v1>>, <<m2, r2, c2, v2>>,
                          cell_id(m1, r1, c1, v1), cell_id(m2, r2, c2, v2))
    /\ UNCHANGED <<clock, opVars, runVars, ledgerVars, stCall, ioCall, provRec, valCall, resCall>>

\* operation_id(kind, inputs, output_hash, prompt_hash), twice
CallOperationId ==
    /\ idCall = NoIdCall
    /\ \E k1 \in {"*", "+"}, k2 \in {"*", "+"}, i1 \in InputLists, i2 \in InputLists,
          o1 \in OutputHashes, o2 \in OutputHashes, p1 \in PromptHashes, p2 \in PromptHashes :
         idCall' = IdCall("operation_id", <<k1, i1, o1, p1>>, <<k2, i2, o2, p2>>,
                          operation_id(k1, i1, o1, p1), operation_id(k2, i2, o2, p2))
    /\ UNCHANGED <<clock, opVars, runVars, ledgerVars, stCall, ioCall, provRec, valCall, resCall>>

----------------------------------------------------------------------------
(* content_hash called directly on lists of cells (provenance.py) *)

MaxCells == 3       \* cells in a list handed to content_hash

\* the lists of n cells at pairwise distinct positions of a 2 x 2 grid
CellLists(n) ==
    {cs \in [1..n -> {Cell(cell_id(<<"a">>, r, c, v), r, c, v) :
                        r \in 0..1, c \in 0..1, v \in {<<"a">>, <<"b">>}}] :
        \A i \in 1..n, j \in 1..n : i # j => <<cs[i].row, cs[i].col>> # <<cs[j].row, cs[j].col>>}

\* the orderings of a list of n elements
Orderings(n) == {p \in [1..n -> 1..n] : \A i \in 1..n, j \in 1..n : i # j => p[i] # p[j]}

reorder(cells, p) == [k \in 1..Len(cells) |-> cells[p[k]]]

\* content_hash(cells) and content_hash of the same cells in another order
CallContentHash ==
    /\ idCall = NoIdCall
    /\ opArgs = NoArgs
    /\ \E n \in 0..MaxCells :
         \E cells \in CellLists(n), p \in Orderings(n) :
            idCall' = IdCall("content_hash", cells, reorder(cells, p),
                             content_hash(cells), content_hash(reorder(cells, p)))
    /\ UNCHANGED <<clock, opVars, runVars, ledgerVars, stCall, ioCall, provRec, valCall, resCall>>

----------------------------------------------------------------------------
(* The validators called directly (validate.py) *)

\* the interpreters the package declares (setup.py): up to 3.11 the test
\* `x in Modality` raises TypeError for an x that is no Modality member, from
\* 3.12 on it compares x with the member values
Builds == {"py311", "py312"}

\* validate_cell(cell), the whole call
validate_cell_call(build, cell) ==
    IF build = "py311" /\ cell.modality \notin Modality
    THEN [raised |-> "TypeError", errors |-> <<>>]
    ELSE [raised |-> "none", errors |-> validate_cell(cell)]

\* validate_matrix(matrix), the whole call: Matrix.type is read before the
\* loop over the cells
validate_matrix_call(build, matrix) ==
    IF validate_matrix(matrix).raised # "none" THEN validate_matrix(matrix)
    ELSE IF build = "py311"
            /\ \E k \in 1..Len(matrix.cells) : matrix.cells[k].modality \notin Modality
    THEN [raised |-> "TypeError", errors |-> <<>>]
    ELSE validate_matrix(matrix)

\* cells as a caller may construct them: the dataclass checks nothing
CellInputs ==
    {[id |-> id, row |-> row, col |-> col, value |-> value, modality |-> modality,
      provenance |-> "{}"] :
        id \in {<<>>, <<"c">>}, row \in -1..1, col \in -1..1,
        value \in {<<>>, <<"x">>}, modality \in {"unknown", "axiom", "bogus"}}

\* the cells the matrices under validation are made of
MatrixCells ==
    {c \in CellInputs :
        \/ c.id = <<"c">> /\ c.row = 0 /\ c.col \in 0..1 /\ c.modality = "unknown"
        \/ c.id = <<"c">> /\ c.row = 1 /\ c.col = 0 /\ c.value = <<"x">> /\ c.modality = "axiom"
        \/ c.id = <<>> /\ c.row = 0 /\ c.col = 0 /\ c.value = <<"x">> /\ c.modality = "unknown"
        \/ c.id = <<"c">> /\ c.row = -1 /\ c.col = 0 /\ c.value = <<"x">> /\ c.modality = "unknown"
        \/ c.id = <<"c">> /\ c.row = 0 /\ c.col = 0 /\ c.value = <<"x">> /\ c.modality = "bogus"}

MatrixInputs ==
    {Matrix(id, name, "test", shape, cells, NoHash, NoMeta) :
        id \in {<<>>, <<"m">>}, name \in {"A", "D", "X"},
        shape \in {<<1, 1>>, <<1, 2>>, <<2, 1>>, <<0, 1>>, <<1, 0>>},
        cells \in {<<>>} \cup {<<c>> : c \in MatrixCells}
                  \cup {<<c, d>> : c \in MatrixCells, d \in MatrixCells}}

\* validate_cell(cell)
CallValidateCell ==
    /\ valCall = NoValCall
    /\ \E build \in Builds, cell \in CellInputs :
         valCall' = [fn |-> "validate_cell", build |-> build, arg |-> cell,
                     out |-> validate_cell_call(build, cell)]
    /\ UNCHANGED <<clock, opVars, runVars, ledgerVars, stCall, idCall, ioCall, provRec, resCall>>

\* validate_matrix(matrix)
CallValidateMatrix ==
    /\ valCall = NoValCall
    /\ \E build \in Builds, matrix \in MatrixInputs :
         valCall' = [fn |-> "validate_matrix", build |-> build, arg |-> matrix,
                     out |-> validate_matrix_call(build, matrix)]
    /\ UNCHANGED <<clock, opVars, runVars, ledgerVars, stCall, idCall, ioCall, provRec, resCall>>

----------------------------------------------------------------------------
(* The deterministic resolver called directly (ops.py) *)

\* a resolver that copies the first cell value of its first input into the grid
EchoResolver_call_values(op, inputs, system_prompt, user_prompt, context) ==
    LET out == EchoResolver_resolve(op, inputs)
        first == IF inputs[1].cells = <<>> THEN <<>> ELSE inputs[1].cells[1].value
    IN  IF out.raised # "none" THEN out
        ELSE [out EXCEPT !.grid = [r \in DOMAIN out.grid |->
                                     [c \in DOMAIN out.grid[r] |-> out.grid[r][c] \o first]]]

\* EchoResolver().resolve(op, inputs, system_prompt, user_prompt, context):
\* the body reads neither the prompts nor the context
EchoResolver_call(op, inputs, system_prompt, user_prompt, context) ==
    EchoResolver_resolve(op, inputs)

\* the matrix with every cell value replaced
with_values(M, value) ==
    [M EXCEPT !.cells = [k \in DOMAIN M.cells |-> [M.cells[k] EXCEPT !.value = value]]]

\* matrices of the same name and shape as M
Variants(M) ==
    {M, with_values(M, <<"other">>), [M EXCEPT !.cells = <<>>]}

\* the inputs an operation kind takes
inputs_of(op, X, Y) == IF op = "interpret" THEN <<X>> ELSE <<X, Y>>

PromptTexts == {<<"system">>, <<"other prompt">>}
Contexts == {EmptyDict, [station |-> "S2"]}

\* resolver.resolve(...) twice, the second call with inputs of the same names
\* and shapes and with prompts and context of its own
CallEchoTwice ==
    /\ resCall = NoResCall
    /\ \E op \in OpKinds \cup {"?"}, sx \in Shapes, sy \in Shapes,
          p \in PromptTexts, ctx \in Contexts :
         LET X == create_test_matrix("A", sx, "full")
             Y == create_test_matrix("B", sy, "full")
         IN  \E X2 \in Variants(X), Y2 \in Variants(Y) :
                resCall' = [fn |-> "echo", op |-> op,
                            a |-> inputs_of(op, X, Y), b |-> inputs_of(op, X2, Y2),
                            prompts |-> <<<<"system">>, p>>, contexts |-> <<EmptyDict, ctx>>,
                            ra |-> EchoResolver_call(op, inputs_of(op, X, Y),
                                                     <<"system">>, <<"user">>, EmptyDict),
                            rb |-> EchoResolver_call(op, inputs_of(op, X2, Y2), p, p, ctx)]
    /\ UNCHANGED <<clock, opVars, runVars, ledgerVars, stCall, idCall, ioCall, provRec, valCall>>

----------------------------------------------------------------------------
(* The generative resolvers called directly (ops.py, cell_resolver.py) *)

\* what the backend may answer to one request of the cell resolver
CellReplies == {"ok", "api_error", "empty", "bad_json"}

\* OpenAIResolver(...).resolve(op, inputs, ...), the backend answering the
\* attempts by the script
CallOpenAIResolve ==
    /\ resCall = NoResCall
    /\ \E op \in OpKinds, sx \in Shapes, sy \in Shapes,
          r1 \in GridReplies \cup BadReplies, r2 \in GridReplies \cup BadReplies :
         LET X == create_test_matrix("A", sx, "full")
             Y == create_test_matrix("B", sy, "full")
         IN  resCall' = [fn |-> "resolve", op |-> op, a |-> inputs_of(op, X, Y),
                         script |-> <<r1, r2>>,
                         out |-> OpenAIResolver_resolve(op, inputs_of(op, X, Y), <<r1, r2>>, "g1")]
    /\ UNCHANGED <<clock, opVars, runVars, ledgerVars, stCall, idCall, ioCall, provRec, valCall>>

\* CellResolver(...)._call_openai(operation, user_prompt)
CallCellOpenAI ==
    /\ resCall = NoResCall
    /\ \E r1 \in CellReplies, r2 \in CellReplies, r3 \in CellReplies :
         resCall' = [fn |-> "_call_openai", op |-> "multiply", script |-> <<r1, r2, r3>>,
                     out |-> call_openai(<<r1, r2, r3>>)]
    /\ UNCHANGED <<clock, opVars, runVars, ledgerVars, stCall, idCall, ioCall, provRec, valCall>>

----------------------------------------------------------------------------
(* The JSON matrix format (serialize.py, types.py) *)

\* the characters json.dumps writes for one character of a str
\* (ensure_ascii=False: everything else is written as it is)
json_escape_token(t) ==
    CASE t = "\t" -> <<"\\", "t">>
      [] t = "\n" -> <<"\\", "n">>
      [] t = "\"" -> <<"\\", "\"">>
      [] t = "\\" -> <<"\\", "\\">>
      [] OTHER -> <<t>>

\* an encoder that writes a backslash as it is
json_escape_keeps_backslash(s) ==
    squeeze([k \in 1..(2 * Len(s)) |->
               LET e == IF s[(k + 1) \div 2] = "\\" THEN <<"\\">>
                        ELSE json_escape_token(s[(k + 1) \div 2])
                   j == 2 - (k % 2)
               IN  IF j <= Len(e) THEN e[j] ELSE Gap])

\* the body of the JSON string json.dumps writes for a str
json_escape(s) ==
    squeeze([k \in 1..(2 * Len(s)) |->
               LET e == json_escape_token(s[(k + 1) \div 2])
                   j == 2 - (k % 2)
               IN  IF j <= Len(e) THEN e[j] ELSE Gap])

\* the character json.loads reads for a backslash followed by t
json_unescape_token(t) ==
    CASE t = "t" -> "\t"
      [] t = "n" -> "\n"
      [] OTHER -> t

\* the str json.loads reads from the body of a JSON string, from position k on
RECURSIVE json_unescape_from(_, _)
json_unescape_from(s, k) ==
    IF k > Len(s) THEN <<>>
    ELSE IF s[k] = "\\" /\ k < Len(s)
    THEN <<json_unescape_token(s[k + 1])>> \o json_unescape_from(s, k + 2)
    ELSE <<s[k]>> \o json_unescape_from(s, k + 1)

json_unescape(s) == json_unescape_from(s, 1)

\* the int json.loads reads from the decimal text json.dumps wrote
json_int(text) == CHOOSE n \in 0..9 : ToString(n) = text

\* Cell.to_dict()
Cell_to_dict(cell) ==
    [id |-> cell.id, row |-> cell.row, col |-> cell.col, value |-> cell.value,
     modality |-> cell.modality, provenance |-> cell.provenance,
     content |-> [text |-> cell.value]]

\* Matrix.to_dict()
Matrix_to_dict(matrix) ==
    [id |-> matrix.id, name |-> matrix.name, station |-> matrix.station,
     shape |-> matrix.shape,
     cells |-> [k \in 1..Len(matrix.cells) |-> Cell_to_dict(matrix.cells[k])],
     hash |-> matrix.hash, metadata |-> matrix.metadata,
     type |-> matrix.name, dimensions |-> matrix.shape]

\* json.dumps(matrix.to_dict(), indent=2, ensure_ascii=False): the document,
\* every str as the body of its JSON string and every int as its decimal text
json_dumps(d) ==
    LET cell(c) ==
            [id |-> json_escape(c.id), row |-> ToString(c.row), col |-> ToString(c.col),
             value |-> json_escape(c.value), modality |-> c.modality,
             provenance |-> c.provenance, content |-> [text |-> json_escape(c.content.text)]]
        ints(t) == [k \in 1..Len(t) |-> ToString(t[k])]
    IN  [id |-> json_escape(d.id), name |-> d.name, station |-> d.station,
         shape |-> ints(d.shape), cells |-> [k \in 1..Len(d.cells) |-> cell(d.cells[k])],
         hash |-> d.hash, metadata |-> d.metadata, type |-> d.type,
         dimensions |-> ints(d.dimensions)]

\* json.loads(text)
json_loads(doc) ==
    LET cell(c) ==
            [id |-> json_unescape(c.id), row |-> json_int(c.row), col |-> json_int(c.col),
             value |-> json_unescape(c.value), modality |-> c.modality,
             provenance |-> c.provenance,
             content |-> [text |-> json_unescape(c.content.text)]]
        ints(t) == [k \in 1..Len(t) |-> json_int(t[k])]
    IN  [id |-> json_unescape(doc.id), name |-> doc.name, station |-> doc.station,
         shape |-> ints(doc.shape), cells |-> [k \in 1..Len(doc.cells) |-> cell(doc.cells[k])],
         hash |-> doc.hash, metadata |-> doc.metadata, type |-> doc.type,
         dimensions |-> ints(doc.dimensions)]

\* Cell.from_dict(data): the new format carries "value"
Cell_from_dict(data) ==
    LET value == IF "value" \in DOMAIN data THEN data.value
                 ELSE IF "content" \in DOMAIN data THEN data.content.text
                 ELSE <<>>
    IN  [id |-> data.id, row |-> data.row, col |-> data.col, value |-> value,
         modality |-> data.modality, provenance |-> data.provenance]

\* Matrix.from_dict(data): "shape" unless it is empty, then "dimensions";
\* "name" unless it is empty, then "type"
Matrix_from_dict(data) ==
    LET shape == IF data.shape # <<>> THEN data.shape ELSE data.dimensions
        name == IF data.name # "" THEN data.name ELSE data.type
    IN  Matrix(data.id, name, data.station, shape,
               [k \in 1..Len(data.cells) |-> Cell_from_dict(data.cells[k])],
               data.hash, data.metadata)

\* save_matrix(matrix, filepath): what the file holds
save_matrix(matrix) == json_dumps(Matrix_to_dict(matrix))

\* load_matrix(filepath), of a file that holds doc
load_matrix(doc) == Matrix_from_dict(json_loads(doc))

\* cell values a caller may store: plain text, text with characters JSON
\* escapes, text that is not in canonical form
JsonTexts ==
    {<<"a">>, <<>>, <<"a", "\t", "b">>, <<"\\", "t">>, <<"\"", "a", "\"">>, <<"\\">>,
     <<"a", " ", " ", "b">>, <<"LIGATURE_FI">>}

\* the matrices saved: test matrices named name of the given shape, the cells
\* in the given order holding the given values and modalities, the hash the
\* literal of the tests or the content hash of the cells
SavedMatrix(name, shape, order, values, modalities, hashed) ==
    LET pos == Positions(shape[1], shape[2])
        cells == [k \in 1..Len(pos) |->
                    [Cell(<<name, ":", ToString(pos[order[k]][1]), ":",
                            ToString(pos[order[k]][2])>>,
                          pos[order[k]][1], pos[order[k]][2], values[k])
                     EXCEPT !.modality = modalities[k]]]
    IN  Matrix(<<name>>, name, "test", shape, cells,
               IF hashed THEN content_hash(cells) ELSE LiteralHash("test_hash"), NoMeta)

\* save_matrix(matrix, path) followed by load_matrix(path)
SaveAndLoad ==
    /\ ioCall = NoIoCall
    /\ \E name \in {"A", "C"}, shape \in {<<1, 1>>, <<1, 2>>, <<2, 1>>}, hashed \in BOOLEAN :
         \E order \in Orderings(shape[1] * shape[2]),
            values \in [1..(shape[1] * shape[2]) -> JsonTexts],
            modalities \in [1..(shape[1] * shape[2]) -> {"unknown", "axiom"}] :
            LET matrix == SavedMatrix(name, shape, order, values, modalities, hashed)
            IN  ioCall' = [saved |-> TRUE, matrix |-> matrix, file |-> save_matrix(matrix),
                           loaded |-> load_matrix(save_matrix(matrix))]
    /\ UNCHANGED <<clock, opVars, runVars, ledgerVars, stCall, idCall, provRec, valCall, resCall>>

----------------------------------------------------------------------------
(* Provenance records and their integrity hash (provenance.py) *)

\* a dict without the key
without(d, key) == [k \in DOMAIN d \ {key} |-> d[k]]

\* sha256(json.dumps(d, sort_keys=True)).hexdigest()[:16]: with the keys
\* sorted the text is a function of the dict, whatever order it was built in
provenance_hash(d) == Sha(16, d)

\* create_cell_provenance whose hash leaves the timestamp out
create_cell_provenance_untimed(operation, sources, metadata, now) ==
    LET provenance ==
            [operation |-> operation, sources |-> sources, timestamp |-> now]
            @@ (IF metadata # EmptyDict THEN "metadata" :> metadata ELSE EmptyDict)
    IN  provenance @@ ("hash" :> provenance_hash(without(provenance, "timestamp")))

\* create_cell_provenance(operation, sources, metadata); now is utcnow()
create_cell_provenance(operation, sources, metadata, now) ==
    LET provenance ==
            [operation |-> operation, sources |-> sources, timestamp |-> now]
            @@ (IF metadata # EmptyDict THEN "metadata" :> metadata ELSE EmptyDict)
    IN  provenance @@ ("hash" :> provenance_hash(provenance))

\* verify_provenance_integrity(provenance)
verify_provenance_integrity(provenance) ==
    IF "hash" \notin DOMAIN provenance THEN FALSE
    ELSE provenance["hash"] = provenance_hash(without(provenance, "hash"))

\* dict.get(key, default)
get(d, key, default) == IF key \in DOMAIN d THEN d[key] ELSE default

\* merge_provenance(prov1, prov2); merged_sources is list(set(...)), the
\* sources of both in the order the set happens to yield them
merge_provenance(prov1, prov2, merged_sources, now) ==
    LET metadata == get(prov2, "metadata", EmptyDict) @@ get(prov1, "metadata", EmptyDict)
        merged ==
            [operation |-> "merge", sources |-> merged_sources, timestamp |-> now,
             parent_operations |-> <<get(prov1, "operation", "None"),
                                     get(prov2, "operation", "None")>>]
            @@ (IF metadata # EmptyDict THEN "metadata" :> metadata ELSE EmptyDict)
    IN  merged @@ ("hash" :> provenance_hash(merged))

\* the lists list(set(xs)) may be
set_lists(xs) ==
    LET S == {xs[k] : k \in 1..Len(xs)}
    IN  {p \in [1..Cardinality(S) -> S] :
            \A i \in 1..Cardinality(S), j \in 1..Cardinality(S) : i # j => p[i] # p[j]}

CellOperations == {"map_domain", "extract_function"}
SourceLists == {<<>>, <<<<"A", ":", "0", ":", "0">>>>,
                <<<<"A", ":", "0", ":", "0">>, <<"B", ":", "0", ":", "0">>>>}
CellMetadata == {EmptyDict, [station |-> "S3"], [note |-> "x"]}

CellProvenances ==
    {create_cell_provenance(op, src, md, 0) :
        op \in CellOperations, src \in SourceLists, md \in CellMetadata}

ProvRec(kind, record) == [kind |-> kind, record |-> record, stored |-> record, change |-> "none"]

\* tracker.track_operation(...): the record the ledger stores
StoreLedgerRecord ==
    /\ provRec = NoProvRec
    /\ \E ty \in OperationTypes, i1 \in EntityIds, o \in EntityIds, md \in {"S2", "S3"} :
         provRec' = ProvRec("ledger",
                            track_operation(NewTracker, ty, <<i1>>, <<o>>, md, clock)
                                .tracker.operations[1])
    /\ clock' = clock + 1
    /\ UNCHANGED <<opVars, runVars, ledgerVars, stCall, idCall, ioCall, valCall, resCall>>

\* create_cell_provenance(operation, sources, metadata)
CreateCellProvenance ==
    /\ provRec = NoProvRec
    /\ \E op \in CellOperations, src \in SourceLists, md \in CellMetadata :
         provRec' = ProvRec("cell", create_cell_provenance(op, src, md, clock))
    /\ clock' = clock + 1
    /\ UNCHANGED <<opVars, runVars, ledgerVars, stCall, idCall, ioCall, valCall, resCall>>

\* merge_provenance(prov1, prov2) of two cell provenance records
MergeProvenance ==
    /\ provRec = NoProvRec
    /\ \E prov1 \in CellProvenances, prov2 \in CellProvenances :
         \E merged_sources \in set_lists(prov1["sources"] \o prov2["sources"]) :
            provRec' = ProvRec("merged", merge_provenance(prov1, prov2, merged_sources, clock))
    /\ clock' = clock + 1
    /\ UNCHANGED <<opVars, runVars, ledgerVars, stCall, idCall, ioCall, valCall, resCall>>

\* another value of the kind the field holds
other_value(kind, key, v) ==
    CASE key = "timestamp" -> v + 1
      [] key \in {"operation", "type"} -> "other"
      [] key = "metadata" -> IF kind = "ledger" THEN "other" ELSE [other |-> "x"]
      [] OTHER -> Append(v, <<"other">>)

\* the stored record is altered in a field other than the hash: the field is
\* given another value or removed, or a new field is added
Tamper ==
    /\ provRec # NoProvRec
    /\ provRec.change = "none"
    /\ \/ \E key \in DOMAIN provRec.stored \ {"hash"} :
            \/ provRec' = [provRec EXCEPT
                             !.record = [k \in DOMAIN provRec.stored |->
                                           IF k = key THEN other_value(provRec.kind, k, provRec.stored[k])
                                           ELSE provRec.stored[k]],
                             !.change = "changed"]
            \/ provRec' = [provRec EXCEPT !.record = without(provRec.stored, key),
                                          !.change = "removed"]
       \/ provRec' = [provRec EXCEPT !.record = provRec.stored @@ ("extra" :> "x"),
                                     !.change = "added"]
    /\ UNCHANGED <<clock, opVars, runVars, ledgerVars, stCall, idCall, ioCall, valCall, resCall>>

----------------------------------------------------------------------------
(* Specifications *)

Init ==
    /\ OpsInit
    /\ RunInit
    /\ LedgerInit
    /\ LibInit

\* run_pipeline
Next ==
    \/ S1Start \/ S1Answer
    \/ S2Start \/ S2Answer
    \/ S3Start \/ S3Answer

Spec == Init /\ [][Next]_vars

\* operation functions called directly
OpsNext == CallOp \/ RepeatOp

OpsStart ==
    /\ OpsInit
    /\ LedgerInit
    /\ LibInit
    /\ args = [hitl |-> FALSE, resolver |-> "echo", thread |-> "t1",
               A |-> create_test_matrix("A", <<1, 1>>, "full"),
               B |-> create_test_matrix("B", <<1, 1>>, "full")]
    /\ pc = "idle"
    /\ runners = [st \in {"S1", "S2", "S3"} |-> NoRunner]
    /\ results = [A |-> args.A, B |-> args.B]
    /\ raised = "none"
    /\ log = <<>>

SpecOps == OpsStart /\ [][OpsNext]_vars

\* a provenance tracker driven directly
LedgerNext == TrackOperation

SpecLedger == OpsStart /\ [][LedgerNext]_vars

\* station runners called directly
StationsNext == RunS1 \/ RunS2 \/ RunS3

SpecStations == OpsStart /\ [][StationsNext]_vars

\* the identity module called directly
IdsNext == CallThreadId \/ CallCellId \/ CallOperationId

SpecIds == OpsStart /\ [][IdsNext]_vars

\* an operation function called twice on the same inputs
VersionsNext == CallOp \/ CallOpAgain

SpecVersions == OpsStart /\ [][VersionsNext]_vars

\* the deterministic resolver asked twice
EchoNext == CallEchoTwice

SpecEcho == OpsStart /\ [][EchoNext]_vars

\* the generative resolvers asked once, the backend failing as it may
RetryNext == CallOpenAIResolve \/ CallCellOpenAI

SpecRetry == OpsStart /\ [][RetryNext]_vars

\* the validators given cells and matrices of every make
ValidateNext == CallValidateCell \/ CallValidateMatrix

SpecValidate == OpsStart /\ [][ValidateNext]_vars

\* a tracker recording operations and answering lineage queries
LineageNext == RecordOperation \/ GetLineage

SpecLineage == OpsStart /\ [][LineageNext]_vars

\* provenance records stored, then altered
RecordsNext == StoreLedgerRecord \/ CreateCellProvenance \/ MergeProvenance \/ Tamper

SpecRecords == OpsStart /\ [][RecordsNext]_vars

\* matrices saved and loaded back
IoNext == SaveAndLoad

SpecIo == OpsStart /\ [][IoNext]_vars

\* content hashes: computed directly, and stored by the operation functions
HashNext == CallContentHash \/ CallOp \/ RepeatOp

SpecHash == OpsStart /\ [][HashNext]_vars

----------------------------------------------------------------------------
(* Properties of the operation functions (SpecOps) *)

called == opArgs # NoArgs

\* the dimension precondition of an operation kind, as the specification states it
dims_ok(kind, X, Y) ==
    /\ kind = "*" => X.shape[2] = Y.shape[1]
    /\ kind \in {"+", "(.)"} => X.shape = Y.shape

\* the output shape the specification fixes for a kind and the input shapes
rule_shape(kind, X, Y) ==
    CASE kind = "*" -> <<X.shape[1], Y.shape[2]>>
      [] kind \in {"+", "(.)", "interpret"} -> X.shape
      [] OTHER -> <<X.shape[1] * Y.shape[1], X.shape[2] * Y.shape[2]>>

\* the matrix holds exactly one cell at each position inside its shape
one_cell_per_position(M) ==
    /\ Len(M.cells) = M.shape[1] * M.shape[2]
    /\ \A r \in 0..(M.shape[1] - 1), c \in 0..(M.shape[2] - 1) :
         Cardinality({k \in 1..Len(M.cells) : M.cells[k].row = r /\ M.cells[k].col = c}) = 1

\* the resolver handed the operation function the rule-shaped grid
rule_shaped_reply == opCall.reply \in {"echo", "exact"}

\* C1: an operation function called with inputs that satisfy its dimension
\* precondition, whose resolver returns the rule-shaped grid, returns a matrix
\* of the shape fixed by the kind and the input shapes, holding exactly
\* rows*cols cells, one at each position inside that shape.
C1_ShapeLaw ==
    (called /\ dims_ok(opArgs.kind, opArgs.X, opArgs.Y)
       /\ (opArgs.env.resolver = "echo" \/ rule_shaped_reply)) =>
        /\ opCall.raised = "none"
        /\ opCall.matrix.shape = rule_shape(opArgs.kind, opArgs.X, opArgs.Y)
        /\ one_cell_per_position(opCall.matrix)

C1_Witness ==
    /\ called
    /\ opArgs.kind = "x"
    /\ opArgs.env.resolver = "echo"
    /\ opArgs.X.shape = <<1, 2>>
    /\ opArgs.Y.shape = <<2, 1>>
    /\ opCall.matrix.shape = <<2, 2>>
    /\ Len(opCall.matrix.cells) = 4

\* C2: ensure_dims raises exactly when (multiply and A.cols # B.rows) or (add or
\* element-wise and A.shape # B.shape), never for cross; op_multiply, op_add
\* and op_elementwise called with such inputs raise the validation error before
\* any resolver is invoked and return no Matrix and no Operation.
C2_DimensionErrors ==
    called =>
        /\ ensure_dims_raises(opArgs.X, opArgs.Y, opArgs.kind)
             <=> ~dims_ok(opArgs.kind, opArgs.X, opArgs.Y)
        /\ ~ensure_dims_raises(opArgs.X, opArgs.Y, "x")
        /\ (opArgs.kind \in {"*", "+", "(.)"} /\ ~dims_ok(opArgs.kind, opArgs.X, opArgs.Y)) =>
             /\ opCall.raised = "CF14ValidationError"
             /\ opCall.resolve_calls = 0
             /\ opCall.cell_calls = 0
             /\ opCall.swallowed = "none"
             /\ opCall.matrix = NoMatrix
             /\ opCall.op = NoOperation
        /\ opCall.raised = "CF14ValidationError" /\ opCall.resolve_calls = 0 =>
             ~dims_ok(opArgs.kind, opArgs.X, opArgs.Y)

C2_Witness ==
    /\ called
    /\ opArgs.kind = "(.)"
    /\ opArgs.env.resolver = "openai"
    /\ opArgs.X.shape = <<1, 2>>
    /\ opArgs.Y.shape = <<2, 1>>
    /\ opCall.raised = "CF14ValidationError"
    /\ opCall.matrix = NoMatrix

repeated == called /\ opPrev # NoCall

\* C6: the same operation function invoked twice with identical inputs,
\* identical resolver behaviour and identical instructions yields two
\* Operation records with the same id, although their timestamps differ.
C6_SameOperationId ==
    (repeated /\ opPrev.raised = "none") =>
        /\ opCall.raised = "none"
        /\ opCall.op.id = opPrev.op.id
        /\ opCall.op.timestamp # opPrev.op.timestamp

C6_Witness ==
    /\ repeated
    /\ opArgs.kind = "*"
    /\ opArgs.env.resolver = "openai"
    /\ opPrev.raised = "none"
    /\ opCall.op.id = opPrev.op.id
    /\ opCall.op.timestamp = opPrev.op.timestamp + 1

\* the backend answered with a grid of another shape than the one asked for
Misshaped == {"short_row", "long_row", "fewer_rows", "more_cols"}

\* C8: when the backend's response yields a grid whose number of rows or the
\* length of a row differs from the required shape, the operation fails with
\* an error and builds no Matrix from it.
C8_MisshapedGridFails ==
    (called /\ opCall.reply \in Misshaped) =>
        /\ opCall.raised # "none"
        /\ opCall.matrix = NoMatrix

\* C9: when the resolver an operation function uses fails after its retries,
\* the function raises to its caller and returns no Matrix; it does not catch
\* the failure and continue on another resolution path.
C9_ResolverFailureRaises ==
    (called /\ opCall.swallowed = "RuntimeError") =>
        /\ opCall.raised # "none"
        /\ opCall.matrix = NoMatrix

----------------------------------------------------------------------------
(* Properties of a pipeline run (Spec) *)

StationNames == {"S1", "S2", "S3"}

\* the positions of the log at which a station logged an event
events(st, ev) == {i \in 1..Len(log) : log[i].station = st /\ log[i].event = ev}

\* C3: the stations execute only in the order S1, S2, S3: S2 starts only after
\* S1 returned and S3 only after S2 returned, no station starts twice, and
\* once a station has raised nothing executes any more.
C3_StationOrder ==
    /\ \A st \in StationNames : Cardinality(events(st, "start")) <= 1
    /\ \A i \in events("S2", "start") : \E j \in events("S1", "return") : j < i
    /\ \A i \in events("S3", "start") : \E j \in events("S2", "return") : j < i
    /\ \A i \in events("S3", "start") : events("S2", "start") # {}
    /\ \A i \in 1..Len(log) : log[i].event = "raise" => i = Len(log)
    /\ raised # "none" => pc = "aborted"
    /\ pc = "export" => \A st \in StationNames : Cardinality(events(st, "return")) = 1

C3_Witness ==
    /\ pc = "aborted"
    /\ events("S1", "return") # {}
    /\ events("S2", "raise") # {}
    /\ events("S2", "op") # {}
    /\ events("S3", "start") = {}

\* the ledger of a run: what the trackers of its three runners hold
RunLedger ==
    runners["S1"].provenance.operations \o runners["S2"].provenance.operations
        \o runners["S3"].provenance.operations

\* the ledger holds a record, tagged with a station, of out made from ins
recorded(ins, out) ==
    \E k \in 1..Len(RunLedger) :
        /\ RunLedger[k].inputs = ins
        /\ RunLedger[k].outputs = <<out>>
        /\ RunLedger[k].metadata \in StationNames

two_by_two_run ==
    /\ pc = "export"
    /\ args.A.shape = <<2, 2>>
    /\ args.B.shape = <<2, 2>>

\* C4: after S1, S2 and S3 ran with the Echo resolver on 2x2 seeds, the ledger
\* of the run holds one record per sub-operation, each with a station tag,
\* whose inputs chain C from (A, B), J from (C), F from (J, C), D from (A, F).
C4_FourChainedRecords ==
    (two_by_two_run /\ args.resolver = "echo") =>
        /\ recorded(<<results.A.id, results.B.id>>, results.C.id)
        /\ recorded(<<results.C.id>>, results.J.id)
        /\ recorded(<<results.J.id, results.C.id>>, results.F.id)
        /\ recorded(<<results.A.id, results.F.id>>, results.D.id)

\* C5: after S2 and S3 ran on 2x2 seeds, the lineage of D at depth 2 names C
\* and A among its sources.
C5_LineageOfD ==
    two_by_two_run =>
        \E st \in StationNames :
            {results.C.id, results.A.id}
                \subseteq lineage_sources(get_lineage(runners[st].provenance, results.D.id, 2))

\* the answers that are a yes
YesAnswers == {"y", "Y", "yes", "YES", "Yes"}

\* the station did nothing that the gate guards
untouched(st) ==
    /\ events(st, "op") = {}
    /\ events(st, "append") = {}
    /\ events(st, "return") = {}
    /\ runners[st].provenance.operations = <<>>

\* C10: with the gate enabled a station calls no resolver and appends nothing
\* to its ledger before a decision is supplied; on any answer other than yes
\* it raises the run-cancelled error having done neither and returned nothing;
\* with the gate disabled no station ever waits for a decision.
C10_ConfirmationGate ==
    /\ \A st \in StationNames : pc = st \o "_confirm" => args.hitl /\ untouched(st)
    /\ args.hitl =>
         \A i \in 1..Len(log) : log[i].event \in {"op", "append"} =>
             \E j \in 1..(i - 1) :
                 /\ log[j].station = log[i].station
                 /\ log[j].event = "answer"
                 /\ log[j].detail.kind \in YesAnswers
    /\ \A i \in 1..Len(log) :
         (log[i].event = "answer" /\ log[i].detail.kind \notin YesAnswers) =>
             /\ raised = Cancelled(log[i].station)
             /\ pc = "aborted"
             /\ untouched(log[i].station)
    /\ ~args.hitl =>
         /\ \A st \in StationNames : pc # st \o "_confirm" /\ events(st, "ask") = {}

C10_Witness ==
    /\ args.hitl
    /\ raised = Cancelled("S2")
    /\ \E i \in events("S2", "answer") : log[i].detail.kind = "ok"
    /\ untouched("S2")
    /\ events("S1", "append") # {}

----------------------------------------------------------------------------
(* Properties of the provenance tracker (SpecLedger) *)

\* C7: two track_operation calls with the same kind, the same input ids and
\* the same output ids, made at different times, return the same operation id.
C7_TrackIdDeterministic ==
    \A i, j \in 1..Len(ledger.operations) :
        (/\ ledger.operations[i].type = ledger.operations[j].type
         /\ ledger.operations[i].inputs = ledger.operations[j].inputs
         /\ ledger.operations[i].outputs = ledger.operations[j].outputs)
            => ledger.operations[i].id = ledger.operations[j].id

----------------------------------------------------------------------------
(* Properties of the station runners called directly (SpecStations) *)

ran(station) == stCall.station = station

\* what the ledger of the runner holds after the call
appended == stCall.out.tracker.operations

has_both(inputs) == {"A", "B"} \subseteq DOMAIN inputs

\* the Validation Engine reports at least one error for A or for B
reports_errors(inputs) ==
    \E k \in {"A", "B"} : validate_matrix(inputs[k]).errors # <<>>

\* the Validation Engine itself raises on A or on B
validation_raises(inputs) ==
    \E k \in {"A", "B"} : validate_matrix(inputs[k]).raised # "none"

\* the gate is disabled or was answered yes
gate_open == confirm_hitl(stCall.enable_hitl, stCall.response)

\* S1 returned the two matrices it was given and appended the one s1_load record
s1_returned ==
    /\ stCall.out.raised = "none"
    /\ DOMAIN stCall.out.outputs = {"A", "B"}
    /\ stCall.out.outputs["A"] = stCall.inputs["A"]
    /\ stCall.out.outputs["B"] = stCall.inputs["B"]
    /\ Len(appended) = 1
    /\ appended[1].inputs = <<>>
    /\ appended[1].outputs = <<stCall.inputs["A"].id, stCall.inputs["B"].id>>

raised_nothing_appended ==
    /\ stCall.out.raised # "none"
    /\ appended = <<>>

op_events == SelectSeq(stCall.out.events, LAMBDA e : e.event = "op")

\* no resolver was invoked, as a whole or for a cell
no_resolver_call ==
    \A k \in 1..Len(op_events) :
        op_events[k].detail.resolve_calls = 0 /\ op_events[k].detail.cell_calls = 0

\* an operation function of the call raised
op_raised == \E k \in 1..Len(op_events) : op_events[k].detail.raised # "none"

cols_match_rows == stCall.inputs["A"].shape[2] = stCall.inputs["B"].shape[1]

\* both dimension checks accept the pair
checks_agree ==
    /\ S2_check(stCall.inputs) = "none"
    /\ ~ensure_dims_raises(stCall.inputs["A"], stCall.inputs["B"], "*")

\* S2 returned A and B as given, with C, and appended the one s2_multiply record
s2_returned ==
    /\ stCall.out.raised = "none"
    /\ DOMAIN stCall.out.outputs = {"A", "B", "C"}
    /\ stCall.out.outputs["A"] = stCall.inputs["A"]
    /\ stCall.out.outputs["B"] = stCall.inputs["B"]
    /\ stCall.out.outputs["C"].name = "C"
    /\ Len(appended) = 1
    /\ appended[1].inputs = <<stCall.inputs["A"].id, stCall.inputs["B"].id>>
    /\ appended[1].outputs = <<stCall.out.outputs["C"].id>>

\* C12 as stated: S2 raises, without invoking the resolver and without
\* appending to the ledger, whenever A.cols # B.rows; whenever A.cols = B.rows
\* its pre-check passes and op_multiply's own ensure_dims check also passes,
\* and S2 returns the given A and B unchanged together with C and appends
\* exactly one ledger record with inputs [A.id, B.id] and output [C.id].
C12_S2Contract ==
    (ran("S2") /\ has_both(stCall.inputs)) =>
        IF ~cols_match_rows
        THEN raised_nothing_appended /\ no_resolver_call
        ELSE checks_agree /\ s2_returned

\* C12 amended: S2 raises, without invoking the resolver and without
\* appending, whenever A.cols # B.rows; whenever A.cols = B.rows both
\* dimension checks pass, and then S2 raises without invoking the resolver
\* when the enabled gate is not answered yes, raises without appending when
\* op_multiply raises, and otherwise (always so with the deterministic
\* resolver) returns A and B unchanged together with C and appends exactly
\* one record with inputs [A.id, B.id] and output [C.id].
C12_S2ContractGated ==
    (ran("S2") /\ has_both(stCall.inputs)) =>
        IF ~cols_match_rows
        THEN raised_nothing_appended /\ no_resolver_call
        ELSE /\ checks_agree
             /\ IF ~gate_open THEN raised_nothing_appended /\ no_resolver_call
                ELSE IF op_raised THEN raised_nothing_appended
                ELSE s2_returned
             /\ (gate_open /\ stCall.env.resolver = "echo") => s2_returned

C12_Witness ==
    /\ ran("S2")
    /\ has_both(stCall.inputs)
    /\ stCall.inputs["A"].shape = <<1, 2>>
    /\ stCall.inputs["B"].shape = <<2, 1>>
    /\ stCall.env.resolver = "echo"
    /\ s2_returned
    /\ stCall.out.outputs["C"].shape = <<1, 1>>

\* the kinds of the operation functions the call went through, in order
op_kinds == [k \in 1..Len(op_events) |-> op_events[k].detail.kind]

\* C13: S3 run with inputs that contain C but not A performs interpret(C)
\* giving J, then elementwise(J, C) giving F, then derives D from C alone, and
\* completes returning C, J, F and D, where D has C's shape and one cell per
\* cell of C.
C13_S3WithoutA ==
    (ran("S3") /\ "C" \in DOMAIN stCall.inputs /\ "A" \notin DOMAIN stCall.inputs
       /\ gate_open /\ stCall.env.resolver = "echo") =>
        /\ op_kinds = <<"interpret", "(.)", "domain">>
        /\ stCall.out.raised = "none"
        /\ {"C", "J", "F", "D"} \subseteq DOMAIN stCall.out.outputs
        /\ stCall.out.outputs["D"].shape = stCall.inputs["C"].shape
        /\ Len(stCall.out.outputs["D"].cells) = Len(stCall.inputs["C"].cells)

----------------------------------------------------------------------------
(* Properties of the identity module (SpecIds) *)

id_called(fn) == idCall.fn = fn

\* C14: cell_id(matrix_id, row, col, value) is the same for two calls if and
\* only if the two calls agree on matrix_id, row, col and value; these four
\* arguments are all the function reads, so modality, provenance and matrix
\* metadata have no part in it.
C14_CellIdIff ==
    id_called("cell_id") => (idCall.ra = idCall.rb <=> idCall.a = idCall.b)

C14_Witness ==
    /\ id_called("cell_id")
    /\ idCall.a = <<<<"a", ":", "0">>, 1, 0, <<"a", " ", "b">>>>
    /\ idCall.b = <<<<"a", ":", "0">>, 1, 0, <<"a", " ", " ", "b">>>>
    /\ idCall.ra # idCall.rb

\* C15: for all seeds, thread_id(seed) returns the same identifier on every
\* call, carries the thread type-tag prefix "cf14:", and differs for any two
\* distinct seeds.
C15_ThreadId ==
    id_called("thread_id") =>
        /\ idCall.ra[1] = "cf14:"
        /\ idCall.rb[1] = "cf14:"
        /\ idCall.ra = idCall.rb <=> idCall.a = idCall.b

C15_Witness ==
    /\ id_called("thread_id")
    /\ idCall.a = <<<<"f", "i">>>>
    /\ idCall.b = <<<<"LIGATURE_FI">>>>
    /\ idCall.ra # idCall.rb

\* the two lists hold the same ids, each as many times
same_collection(x, y) ==
    /\ Len(x) = Len(y)
    /\ \A v \in {x[k] : k \in 1..Len(x)} \cup {y[k] : k \in 1..Len(y)} :
         Cardinality({k \in 1..Len(x) : x[k] = v}) = Cardinality({k \in 1..Len(y) : y[k] = v})

\* C16: operation_id(kind, inputs, output_hash, prompt_hash) is invariant
\* under every permutation of the inputs list, and changes whenever the kind,
\* the collection of input ids, the output hash or the prompt hash changes.
C16_OperationId ==
    id_called("operation_id") =>
        (idCall.ra = idCall.rb
           <=> /\ idCall.a[1] = idCall.b[1]
               /\ same_collection(idCall.a[2], idCall.b[2])
               /\ idCall.a[3] = idCall.b[3]
               /\ idCall.a[4] = idCall.b[4])

\* the two strings differ at most by the length of whitespace runs or by
\* Unicode compatibility form
cosmetic(x, y) == normalize(x) = normalize(y)

\* the arguments of the two calls differ at most cosmetically
cosmetic_calls ==
    CASE id_called("thread_id") -> cosmetic(idCall.a[1], idCall.b[1])
      [] id_called("cell_id") ->
            /\ cosmetic(idCall.a[1], idCall.b[1])
            /\ idCall.a[2] = idCall.b[2]
            /\ idCall.a[3] = idCall.b[3]
            /\ cosmetic(idCall.a[4], idCall.b[4])
      [] id_called("operation_id") ->
            /\ idCall.a[1] = idCall.b[1]
            /\ Len(idCall.a[2]) = Len(idCall.b[2])
            /\ \A k \in 1..Len(idCall.a[2]) : cosmetic(idCall.a[2][k], idCall.b[2][k])
            /\ idCall.a[3] = idCall.b[3]
            /\ idCall.a[4] = idCall.b[4]
      [] OTHER -> FALSE

\* C17: for each identifier function of the identity module (thread_id,
\* cell_id, operation_id), two calls whose string arguments differ only
\* cosmetically return the same identifier.
C17_CosmeticDifferences ==
    cosmetic_calls => idCall.ra = idCall.rb

----------------------------------------------------------------------------
(* Properties of the content hash (SpecHash) *)

\* C18: the content hash of a Matrix is order-independent: for any list of
\* cells with pairwise distinct positions, content_hash returns the same
\* value for every ordering of the list, and the hash stored in every Matrix
\* built by an operation function equals content_hash of that Matrix's cells.
C18_ContentHash ==
    /\ id_called("content_hash") => idCall.ra = idCall.rb
    /\ (called /\ opCall.raised = "none") =>
         opCall.matrix.hash = content_hash(opCall.matrix.cells)
    /\ (repeated /\ opPrev.raised = "none") =>
         opPrev.matrix.hash = content_hash(opPrev.matrix.cells)

C18_Witness ==
    /\ id_called("content_hash")
    /\ Len(idCall.a) = 3
    /\ idCall.a[1].row = 1
    /\ idCall.a[3].row = 0
    /\ idCall.b = <<idCall.a[3], idCall.a[1], idCall.a[2]>>
    /\ idCall.ra = idCall.rb

----------------------------------------------------------------------------
(* Properties of the JSON matrix format (SpecIo) *)

\* the reloaded cell is the saved one in id, position, value and modality
same_cell(x, y) ==
    /\ x.id = y.id
    /\ x.row = y.row
    /\ x.col = y.col
    /\ x.value = y.value
    /\ x.modality = y.modality

\* C19: saving any Matrix to the JSON matrix format and loading it back
\* yields a Matrix with the identical hash and the identical shape, and with
\* the same cells (same id, row, col, value and modality for each), so that
\* the content hash recomputed from the reloaded cells equals the one
\* recomputed from the original cells.
C19_RoundTrip ==
    ioCall.saved =>
        /\ ioCall.loaded.hash = ioCall.matrix.hash
        /\ ioCall.loaded.shape = ioCall.matrix.shape
        /\ Len(ioCall.loaded.cells) = Len(ioCall.matrix.cells)
        /\ \A k \in 1..Len(ioCall.matrix.cells) :
             same_cell(ioCall.loaded.cells[k], ioCall.matrix.cells[k])
        /\ content_hash(ioCall.loaded.cells) = content_hash(ioCall.matrix.cells)

C19_Witness ==
    /\ ioCall.saved
    /\ ioCall.matrix.shape = <<1, 2>>
    /\ ioCall.matrix.cells[1].col = 1
    /\ ioCall.matrix.cells[1].value = <<"\\", "t">>
    /\ ioCall.matrix.cells[2].value = <<"a", "\t", "b">>
    /\ ioCall.file.cells[1].value = <<"\\", "\\", "t">>
    /\ ioCall.file.cells[2].value = <<"a", "\\", "t", "b">>
    /\ ioCall.loaded.cells[1].value = <<"\\", "t">>
    /\ ioCall.loaded.cells[2].value = <<"a", "\t", "b">>

----------------------------------------------------------------------------
(* Properties of the provenance records (SpecRecords) *)

\* C20: every stored provenance record, both the records the ledger stores
\* through track_operation and the cell provenance records made by
\* create_cell_provenance and merge_provenance, carries a hash over its other
\* fields; verify_provenance_integrity returns true for every such record as
\* stored and returns false after any field other than the hash is changed,
\* added or removed.
C20_RecordIntegrity ==
    provRec # NoProvRec =>
        /\ "hash" \in DOMAIN provRec.stored
        /\ verify_provenance_integrity(provRec.stored)
        /\ provRec.change # "none" => ~verify_provenance_integrity(provRec.record)

\* the part of C20 that the cell provenance records meet
C20_CellRecordIntegrity ==
    provRec # NoProvRec /\ provRec.kind \in {"cell", "merged"} =>
        /\ "hash" \in DOMAIN provRec.stored
        /\ verify_provenance_integrity(provRec.stored)
        /\ provRec.change # "none" => ~verify_provenance_integrity(provRec.record)

----------------------------------------------------------------------------
(* Properties of the lineage queries (SpecLineage) *)

\* the records of the ledger that list the entity as an output
producers(ops, entity_id) ==
    {k \in 1..Len(ops) : \E o \in 1..Len(ops[k].outputs) : ops[k].outputs[o] = entity_id}

\* the last of them
last_producer(ops, entity_id) ==
    ops[CHOOSE k \in producers(ops, entity_id) : \A j \in producers(ops, entity_id) : j <= k]

\* the lineage the operation records prescribe for an entity
RECURSIVE expected_lineage(_, _, _)
expected_lineage(ops, entity_id, depth) ==
    IF producers(ops, entity_id) = {}
    THEN [id |-> entity_id, found |-> FALSE, nested |-> FALSE, sources |-> <<>>]
    ELSE LET op == last_producer(ops, entity_id)
         IN  [id |-> entity_id, found |-> TRUE, nested |-> depth > 1 /\ op.inputs # <<>>,
              operation |-> op.id, timestamp |-> op.timestamp,
              sources |-> IF depth > 1
                          THEN [k \in 1..Len(op.inputs) |->
                                  expected_lineage(ops, op.inputs[k], depth - 1)]
                          ELSE op.inputs]

lineage_queried == "result" \in DOMAIN query /\ query.call = "get_lineage"

\* C21: get_lineage(entity_id, depth) returns the sources of the entity nested
\* to at most depth levels: with depth 1 exactly the input ids of the last
\* operation that produced the entity, with depth d > 1 each source replaced
\* by its own lineage at depth d - 1, and for an entity never recorded as an
\* output the no-lineage marker.
C21_Lineage ==
    lineage_queried =>
        /\ query.result = expected_lineage(ledger.operations, query.id, query.depth)
        /\ producers(ledger.operations, query.id) = {} =>
             ~query.result.found /\ query.result.id = query.id
        /\ producers(ledger.operations, query.id) # {} /\ query.depth = 1 =>
             /\ ~query.result.nested
             /\ query.result.sources = last_producer(ledger.operations, query.id).inputs
        /\ producers(ledger.operations, query.id) # {} /\ query.depth > 1 =>
             \A k \in 1..Len(query.result.sources) :
                query.result.sources[k] =
                    get_lineage(ledger,
                                last_producer(ledger.operations, query.id).inputs[k],
                                query.depth - 1)

\* a query at depth 3 whose answer nests a found source inside a found source,
\* and a query for an entity the ledger never produced
C21_Witness ==
    /\ lineage_queried
    /\ query.depth = 3
    /\ query.result.found /\ query.result.nested
    /\ \E k \in 1..Len(query.result.sources) :
         /\ query.result.sources[k].found /\ query.result.sources[k].nested
         /\ \E j \in 1..Len(query.result.sources[k].sources) :
              ~query.result.sources[k].sources[j].found

\* a step that is one track_operation call
tracked == clock' = clock + 1 /\ query'.call = "track_operation"

\* the lineage index answers for every output id of every record with the
\* operation id and the sources of the last record that lists it
index_current ==
    \A k \in 1..Len(ledger.operations) :
        \A o \in 1..Len(ledger.operations[k].outputs) :
            LET id == ledger.operations[k].outputs[o]
            IN  /\ id \in DOMAIN ledger.lineage
                /\ ledger.lineage[id].operation = last_producer(ledger.operations, id).id
                /\ ledger.lineage[id].sources = last_producer(ledger.operations, id).inputs

\* C28: after any sequence of track_operation calls the operation list holds
\* exactly one record per call, in call order, with no earlier record changed
\* or removed; and for every output id of every record the lineage index
\* holds the operation id and sources of the most recent record listing it.
C28_LedgerAppendOnly ==
    /\ [](Len(ledger.operations) = clock /\ index_current)
    /\ [][/\ SubSeq(ledger'.operations, 1, Len(ledger.operations)) = ledger.operations
          /\ tracked =>
               /\ Len(ledger'.operations) = Len(ledger.operations) + 1
               /\ ledger'.operations[Len(ledger'.operations)].id = query'.op_id
               /\ ledger'.operations[Len(ledger'.operations)].timestamp = clock
          /\ ~tracked => ledger'.operations = ledger.operations]_vars

\* two calls have listed the same output id, the second with other sources
C28_Witness ==
    /\ Len(ledger.operations) = 2
    /\ ledger.operations[1].outputs = ledger.operations[2].outputs
    /\ ledger.operations[1].inputs # ledger.operations[2].inputs
    /\ ledger.lineage[ledger.operations[1].outputs[1]].sources = ledger.operations[2].inputs

\* C30: get_lineage is read-only: for every entity id and every depth,
\* nested queries included, a call leaves the operation records and every
\* entry of the lineage index unchanged, so that repeating the query returns
\* the same result.
C30_LineageReadOnly ==
    [][clock' = clock /\ query'.call = "get_lineage" =>
          /\ ledger'.operations = ledger.operations
          /\ ledger'.lineage = ledger.lineage
          /\ get_lineage(ledger', query'.id, query'.depth) = query'.result]_vars

\* a nested query has been answered from a ledger that holds records
C30_Witness ==
    /\ lineage_queried
    /\ query.depth > 1
    /\ query.result.found /\ query.result.nested
    /\ \E k \in 1..Len(query.result.sources) : query.result.sources[k].found
    /\ Len(ledger.operations) = 2

----------------------------------------------------------------------------
(* Properties of the validators (SpecValidate) *)

validated(fn) == valCall.fn = fn

\* the call returned the empty error list
returned_empty == valCall.out.raised = "none" /\ valCall.out.errors = <<>>

\* the call returned a list holding at least one error
returned_errors == valCall.out.raised = "none" /\ valCall.out.errors # <<>>

\* what validate_matrix is to check, the role tag apart
well_formed(build, matrix) ==
    /\ matrix.id # <<>>
    /\ matrix.shape[1] > 0 /\ matrix.shape[2] > 0
    /\ matrix.cells # <<>>
    /\ \A i \in 1..Len(matrix.cells), j \in 1..Len(matrix.cells) :
         i # j => <<matrix.cells[i].row, matrix.cells[i].col>>
                  # <<matrix.cells[j].row, matrix.cells[j].col>>
    /\ \A k \in 1..Len(matrix.cells) :
         /\ matrix.cells[k].row \in 0..(matrix.shape[1] - 1)
         /\ matrix.cells[k].col \in 0..(matrix.shape[2] - 1)
         /\ validate_cell_call(build, matrix.cells[k]) = [raised |-> "none", errors |-> <<>>]

C23_ValidCell ==
    validated("validate_cell") =>
        IF \/ valCall.arg.id = <<>>
           \/ valCall.arg.row < 0
           \/ valCall.arg.col < 0
           \/ valCall.arg.value = <<>>
           \/ valCall.arg.modality \notin Modality
        THEN returned_errors
        ELSE returned_empty

\* C24: validate_matrix and validate_cell return a list of error descriptions
\* for every Matrix or Cell they are given and never raise on structurally
\* invalid input, including a matrix whose name is not one of the role tags,
\* a matrix with a non-positive shape, and a matrix with no cells.
C24_ValidatorsNeverRaise ==
    valCall # NoValCall => valCall.out.raised = "none"

----------------------------------------------------------------------------
(* Properties of matrix versions (SpecVersions) *)

\* C25: distinct versions of a matrix have distinct ids: two output matrices
\* of the same role produced by an Operation Function under the same thread
\* but with different cell content (different content hash) never carry the
\* same matrix id.
C25_VersionIds ==
    (/\ opPrev # NoCall
     /\ opPrev.raised = "none" /\ opCall.raised = "none"
     /\ opPrev.matrix.name = opCall.matrix.name
     /\ opPrev.matrix.hash # opCall.matrix.hash)
        => opPrev.matrix.id # opCall.matrix.id

----------------------------------------------------------------------------
(* Properties of the deterministic resolver (SpecEcho) *)

\* the shape the grid of an operation kind is to have
echo_shape(op, inputs) ==
    IF op = "*" THEN <<inputs[1].shape[1], inputs[2].shape[2]>>
    ELSE IF op = "x" THEN <<inputs[1].shape[1] * inputs[2].shape[1],
                            inputs[1].shape[2] * inputs[2].shape[2]>>
    ELSE inputs[1].shape

\* C26: the grid returned by the deterministic synthetic resolver depends only
\* on the operation kind and on the names and shapes of the input matrices:
\* two EchoResolver.resolve calls that differ only in the inputs' cell values,
\* in the prompts or in the context return identical grids, every entry is a
\* string, and an unknown operation kind is rejected with an error.
C26_EchoDeterministic ==
    resCall.fn = "echo" =>
        /\ resCall.ra = resCall.rb
        /\ resCall.op \in OpKinds =>
             /\ resCall.ra.raised = "none"
             /\ Len(resCall.ra.grid) = echo_shape(resCall.op, resCall.a)[1]
             /\ \A r \in DOMAIN resCall.ra.grid :
                  /\ Len(resCall.ra.grid[r]) = echo_shape(resCall.op, resCall.a)[2]
                  /\ \A c \in DOMAIN resCall.ra.grid[r] :
                       /\ Len(resCall.ra.grid[r][c]) > 0
                       /\ resCall.ra.grid[r][c][2] = resCall.a[1].name
        /\ resCall.op \notin OpKinds => resCall.ra.raised = "ValueError"

\* two calls for a product whose inputs differ in their cell values and whose
\* prompts and contexts differ have returned the same grid of two rows
C26_Witness ==
    /\ resCall.fn = "echo"
    /\ resCall.op = "*"
    /\ resCall.a[1].cells # resCall.b[1].cells /\ resCall.b[1].cells # <<>>
    /\ resCall.prompts[1] # resCall.prompts[2]
    /\ resCall.contexts[1] # resCall.contexts[2]
    /\ resCall.ra.raised = "none"
    /\ Len(resCall.ra.grid) = 2
    /\ resCall.ra.grid = resCall.rb.grid

----------------------------------------------------------------------------
(* Properties of the retry loops (SpecRetry) *)

\* the attempts a call may make
budget == IF resCall.fn = "resolve" THEN OpenAIResolver_max_retries
          ELSE CellResolver_max_retries

\* the input dimensions do not fit the operation
mismatch ==
    /\ resCall.fn = "resolve"
    /\ \/ resCall.op = "*" /\ resCall.a[1].shape[2] # resCall.a[2].shape[1]
       \/ resCall.op \in {"+", "(.)"} /\ resCall.a[1].shape # resCall.a[2].shape

\* the k-th reply of the backend is one the call accepts
accepted(k) ==
    IF resCall.fn = "resolve"
    THEN /\ resCall.script[k] \notin {"api_error", "no_tool_call"}
         /\ ensure_grid(tool_arguments(resCall.script[k],
                                       target_shape_for_op(resCall.op, resCall.a).shape[1],
                                       target_shape_for_op(resCall.op, resCall.a).shape[2],
                                       "g1")).raised = "none"
    ELSE resCall.script[k] = "ok"

\* the waits between n attempts: 2^k seconds after the k-th failed one
waits(n) == [k \in 1..(n - 1) |-> 2 ^ (k - 1)]

----------------------------------------------------------------------------
(* Properties of S3 run on the results of S2 (Spec) *)

\* what the log holds of S3
s3_events == SelectSeq(log, LAMBDA e : e.station = "S3")
s3_ops == SelectSeq(s3_events, LAMBDA e : e.event = "op")

\* S3 was handed the results of a successful S2 and has returned or raised
s3_finished == \E k \in 1..Len(s3_events) : s3_events[k].event \in {"return", "raise"}

\* S3 returned C, J, F and D with A and B, and its ledger holds the one record
s3_completed ==
    /\ raised = "none"
    /\ DOMAIN results = {"A", "B", "C", "J", "F", "D"}
    /\ Len(runners["S3"].provenance.operations) = 1

\* S3 left by an exception: no J, F or D reaches the driver, nothing is appended
s3_nothing ==
    /\ raised # "none"
    /\ DOMAIN results = {"A", "B", "C"}
    /\ runners["S3"].provenance.operations = <<>>

\* S3 raised the dimension mismatch at the add step, J and F computed before it
s3_mismatch_at_add ==
    /\ s3_nothing
    /\ raised = "CF14ValidationError"
    /\ Len(s3_ops) = 3
    /\ s3_ops[1].detail.kind = "interpret" /\ s3_ops[1].detail.raised = "none"
    /\ s3_ops[2].detail.kind = "(.)" /\ s3_ops[2].detail.raised = "none"
    /\ s3_ops[3].detail.kind = "+" /\ s3_ops[3].detail.raised = "CF14ValidationError"
    /\ s3_ops[3].detail.resolve_calls = 0 /\ s3_ops[3].detail.cell_calls = 0

\* S3 raised because its gate was not answered yes, or because the resolver
\* failed on one of its operations
s3_cancelled == s3_nothing /\ raised = Cancelled("S3") /\ s3_ops = <<>>
s3_resolver_failed ==
    /\ s3_nothing
    /\ s3_ops # <<>>
    /\ s3_ops[Len(s3_ops)].detail.raised = raised
    /\ raised \in {"RuntimeError", "ValueError"}

c_from_s2 == results["C"].shape = <<args.A.shape[1], args.B.shape[2]>>

====
